---- MODULE Spec2Model ----
(***************************************************************************)
(* Execution core of AutoEnv: the DAG scheduler (base/pipeline) and the    *)
(* benchmark orchestrator (benchmarks/base/benchmark.py).                  *)
(*                                                                         *)
(* The specifications of the module:                                       *)
(*   PipelineSpec  BaseNode.add builds a graph, BasePipeline.run runs it   *)
(*   FairPipeline  the same, with the event loop's progress as fairness    *)
(*   ContextSpec   runs without a raising node: context objects and errors  *)
(*   ChainSpec     the pipelines of create_default, built with >> and run   *)
(*   BenchSpec     Benchmark.execute calls on one Benchmark instance       *)
(*   FairBench     the same, with the event loop's progress as fairness    *)
(*   CsvSpec       processes in _save_env_result_to_csv on one report file *)
(*   LoaderSpec    one run_world call: loading a work item step by step,   *)
(*                 then the solver's calls through EnvWrapper              *)
(* Variables that a specification does not use keep their initial value.   *)
(***************************************************************************)
EXTENDS Integers, Sequences, FiniteSets, TLC

\* ------------------------------------------------------------------------
\* Bounds and input domains
\* ------------------------------------------------------------------------

\* The node objects of one graph; node_id is the name (ids are unique).
Nodes == {"root", "B", "C", "D"}

\* At most this many distinct edges are created by add / >> before run.
MaxEdges == 4

\* A level directory holds at most the level files 1..MaxWorlds.
MaxWorlds == 2

\* The Benchmark instance has completed at most this many execute calls
\* before the call that is followed step by step.
MaxHistory == 2

\* Processes that are inside _save_env_result_to_csv on one report file.
MaxWriters == 2

\* Calls the solver makes on the wrapped environment of one work item.
MaxEnvCalls == 2

\* Calls a solver makes on its wrapped environment when several execute
\* calls are under way in one event loop.
MaxItemCalls == 1

VARIABLES
    successors,     \* BaseNode.successors  : node -> list of nodes
    predecessors,   \* BaseNode.predecessors: node -> list of nodes
    ppc,            \* position of BasePipeline.run
    nodes,          \* run: nodes = self._collect_nodes()
    in_degree,      \* run: in_degree dict (node -> int)
    executed,       \* run: executed set
    ready,          \* run: ready list of the current loop iteration
    nstatus,        \* per node: state of its execute(ctx) coroutine
    starts,         \* per node: how many times execute(ctx) was started
    ctx,            \* keys written into the shared NodeContext
    ctxrefs,        \* which NodeContext object the caller, run and each node hold
    bench,          \* the fields of one Benchmark instance
    exec,           \* the frame of the current Benchmark.execute call
    tasks,          \* one run_world_with_semaphore task per selected world
    store,          \* the report file at csv_path
    writers,        \* per process: its position and locals in _save_env_result_to_csv
    disk,           \* the directory entry csv_path, the files and their flock holders
    ld,             \* one run_world call: its position, locals, and the process's
                    \* working directory and sys.path
    build,          \* the pipeline under construction: the root it is given and,
                    \* in create_default, the position in the >> expression
    coop,           \* one event loop running an execute call per environment:
                    \* the task that has the thread, the process's working
                    \* directory, each call's semaphore, each item's position
    gctx            \* the GeneratorContext of a GeneratorPipeline.run call

pvars == <<successors, predecessors, ppc, nodes, in_degree, executed, ready,
           nstatus, starts, ctx, ctxrefs>>

bvars == <<bench, exec, tasks, store>>

cvars == <<writers, disk>>

lvars == <<ld>>

gvars == <<build>>

ovars == <<coop>>

xvars == <<gctx>>

vars == <<pvars, bvars, cvars, lvars, gvars, ovars, xvars>>

\* The node handed to BasePipeline(root=...).
Root == build.root

\* ------------------------------------------------------------------------
\* Sequence helpers
\* ------------------------------------------------------------------------

Range(s) == {s[i] : i \in 1..Len(s)}

Contains(s, x) == \E i \in 1..Len(s) : s[i] = x

\* ------------------------------------------------------------------------
\* base/pipeline/base_node.py
\* ------------------------------------------------------------------------

EdgeCount == Cardinality({e \in Nodes \X Nodes : Contains(successors[e[1]], e[2])})

\* self.add(node): append to both lists unless already present
AddSuccessors(a, b) ==
    IF Contains(successors[a], b)
    THEN successors
    ELSE [successors EXCEPT ![a] = Append(@, b)]

\* mutant: the predecessor is appended without the membership test
AddPredecessorsAlways(a, b) == [predecessors EXCEPT ![b] = Append(@, a)]

AddPredecessors(a, b) ==
    IF Contains(predecessors[b], a)
    THEN predecessors
    ELSE [predecessors EXCEPT ![b] = Append(@, a)]

\* a.add(b)  /  a >> b, called by the graph builder before run
Add(a, b) ==
    /\ ppc = "build"
    /\ \/ Contains(successors[a], b)
       \/ EdgeCount < MaxEdges
    /\ successors' = AddSuccessors(a, b)
    /\ predecessors' = AddPredecessors(a, b)
    /\ <<successors', predecessors'>> # <<successors, predecessors>>
    /\ UNCHANGED <<ppc, nodes, in_degree, executed, ready, nstatus, starts, ctx, ctxrefs, bvars, cvars, lvars, gvars, ovars, xvars>>

\* ------------------------------------------------------------------------
\* base/pipeline/base_pipeline.py
\* ------------------------------------------------------------------------

\* dfs(node) of _collect_nodes, acc = the nodes list so far (visited = its range)
RECURSIVE Dfs(_, _), DfsEach(_, _, _)

\* mutant: the successors of a node are visited last to first
RECURSIVE DfsEachReversed(_, _, _)
DfsEachReversed(succs, i, acc) ==
    IF i > Len(succs)
    THEN acc
    ELSE DfsEachReversed(succs, i + 1, Dfs(succs[Len(succs) + 1 - i], acc))

Dfs(n, acc) ==
    IF Contains(acc, n)
    THEN acc
    ELSE DfsEach(successors[n], 1, Append(acc, n))

DfsEach(succs, i, acc) ==
    IF i > Len(succs)
    THEN acc
    ELSE DfsEach(succs, i + 1, Dfs(succs[i], acc))

CollectNodes == Dfs(Root, <<>>)

\* in_degree = {n.node_id: len(n.predecessors) for n in nodes}
InitialInDegree(n) == Len(predecessors[n])

\* mutant: a node counts as ready one predecessor early
IsReadyOneEarly(deg, nid, ex) == deg <= 1 /\ nid \notin ex

\* the test of the ready comprehension: deg == 0 and nid not in executed
IsReady(deg, nid, ex) == deg = 0 /\ nid \notin ex

\* ready = [nid for nid, deg in in_degree.items() if ...]; dict order = nodes order
ReadyList(ns, deg, ex) ==
    LET Ok(nid) == IsReady(deg[nid], nid, ex) IN SelectSeq(ns, Ok)

\* the decrement loop: for node_id in ready: for s in successors: in_degree[s] -= 1
RECURSIVE DecEach(_, _, _)
DecEach(succs, i, deg) ==
    IF i > Len(succs)
    THEN deg
    ELSE DecEach(succs, i + 1, [deg EXCEPT ![succs[i]] = @ - 1])

\* mutant: nothing is decremented once an error is recorded in ctx
RECURSIVE DecAllUnlessError(_, _, _)
DecAllUnlessError(rd, i, deg) ==
    IF i > Len(rd) \/ "error" \in ctx
    THEN deg
    ELSE DecAllUnlessError(rd, i + 1, DecEach(successors[rd[i]], 1, deg))

RECURSIVE DecAll(_, _, _)
DecAll(rd, i, deg) ==
    IF i > Len(rd)
    THEN deg
    ELSE DecAll(rd, i + 1, DecEach(successors[rd[i]], 1, deg))

\* mutant: an empty ready list ends the loop as if the run were complete
OnEmptyReadyReturn == "returned"

\* what the loop head does when the ready list is empty
OnEmptyReady == "cycle_error"

\* One evaluation of the loop head (lines 43-48) with the given executed set
\* and in-degrees: returns the next position of run and the ready list.
LoopHead(ns, deg, ex) ==
    IF Cardinality(ex) < Len(ns)
    THEN LET rd == ReadyList(ns, deg, ex) IN
         IF rd = <<>>
         THEN [pc |-> OnEmptyReady, ready |-> <<>>]
         ELSE [pc |-> "gather", ready |-> rd]
    ELSE [pc |-> "returned", ready |-> <<>>]

\* A NodeContext object is named by a number: 0 is None, CallerCtx the
\* object the caller passes, NewCtx the one NodeContext() makes in run.
CallerCtx == 1

NewCtx == 2

\* mutant: run always makes its own context
RunCtxAlwaysNew(arg) == NewCtx

\* lines 35-36: if ctx is None: ctx = NodeContext()
RunCtx(arg) == IF arg = 0 THEN NewCtx ELSE arg

\* run(): collect, compute in-degrees, first pass through the loop head
RunStart ==
    /\ ppc = "build"
    /\ LET ns == CollectNodes
           deg == [n \in Range(ns) |-> InitialInDegree(n)]
           h == LoopHead(ns, deg, {})
       IN /\ nodes' = ns
          /\ in_degree' = deg
          /\ executed' = {}
          /\ ppc' = h.pc
          /\ ready' = h.ready
    /\ ctxrefs' = [ctxrefs EXCEPT
                      !.run = RunCtx(ctxrefs.arg),
                      !.created = IF RunCtx(ctxrefs.arg) = ctxrefs.arg THEN @ ELSE @ + 1]
    /\ UNCHANGED <<successors, predecessors, nstatus, starts, ctx, bvars, cvars, lvars, gvars, ovars, xvars>>

\* a task created by asyncio.gather gets its first step
NodeStart(n) ==
    /\ ppc \in {"gather", "raised"}
    /\ Contains(ready, n)
    /\ nstatus[n] = "idle"
    /\ nstatus' = [nstatus EXCEPT ![n] = "running"]
    /\ starts' = [starts EXCEPT ![n] = @ + 1]
    /\ ctxrefs' = [ctxrefs EXCEPT !.passed[n] = ctxrefs.run]
    /\ UNCHANGED <<successors, predecessors, ppc, nodes, in_degree, executed, ready, ctx, bvars, cvars, lvars, gvars, ovars, xvars>>

\* node.execute(ctx) returns, having written its output into ctx
NodeFinish(n) ==
    /\ nstatus[n] = "running"
    /\ nstatus' = [nstatus EXCEPT ![n] = "done"]
    /\ ctx' = ctx \cup {n}
    /\ UNCHANGED <<successors, predecessors, ppc, nodes, in_degree, executed, ready, starts, ctxrefs, bvars, cvars, lvars, gvars, ovars, xvars>>

\* node.execute(ctx) records an error in ctx instead of its output and
\* returns normally
NodeFinishError(n) ==
    /\ nstatus[n] = "running"
    /\ nstatus' = [nstatus EXCEPT ![n] = "done"]
    /\ ctx' = ctx \cup {"error"}
    /\ UNCHANGED <<successors, predecessors, ppc, nodes, in_degree, executed, ready, starts, ctxrefs, bvars, cvars, lvars, gvars, ovars, xvars>>

\* node.execute(ctx) raises
NodeRaise(n) ==
    /\ nstatus[n] = "running"
    /\ nstatus' = [nstatus EXCEPT ![n] = "raised"]
    /\ UNCHANGED <<successors, predecessors, ppc, nodes, in_degree, executed, ready, starts, ctx, ctxrefs, bvars, cvars, lvars, gvars, ovars, xvars>>

\* gather returns: mark executed, decrement successors, loop head again
\* mutant: the loop goes on as soon as one node of the frontier has returned
GatherDoneFirstCompleted ==
    /\ ppc = "gather"
    /\ \E n \in Range(ready) : nstatus[n] = "done"
    /\ \A n \in Range(ready) : nstatus[n] # "raised"
    /\ LET ex == executed \cup Range(ready)
           deg == DecAll(ready, 1, in_degree)
           h == LoopHead(nodes, deg, ex)
       IN /\ executed' = ex
          /\ in_degree' = deg
          /\ ppc' = h.pc
          /\ ready' = h.ready
          /\ ctxrefs' = IF h.pc = "returned"
                        THEN [ctxrefs EXCEPT !.returned = ctxrefs.run]
                        ELSE ctxrefs
    /\ UNCHANGED <<successors, predecessors, nodes, nstatus, starts, ctx, bvars, cvars, lvars, gvars, ovars, xvars>>

GatherDone ==
    /\ ppc = "gather"
    /\ \A n \in Range(ready) : nstatus[n] = "done"
    /\ LET ex == executed \cup Range(ready)
           deg == DecAll(ready, 1, in_degree)
           h == LoopHead(nodes, deg, ex)
       IN /\ executed' = ex
          /\ in_degree' = deg
          /\ ppc' = h.pc
          /\ ready' = h.ready
          /\ ctxrefs' = IF h.pc = "returned"
                        THEN [ctxrefs EXCEPT !.returned = ctxrefs.run]
                        ELSE ctxrefs
    /\ UNCHANGED <<successors, predecessors, nodes, nstatus, starts, ctx, bvars, cvars, lvars, gvars, ovars, xvars>>

\* mutant: a failed node is passed over and the loop goes on
GatherSkipsFailed ==
    /\ ppc = "gather"
    /\ \E n \in Range(ready) : nstatus[n] = "raised"
    /\ \A n \in Range(ready) : nstatus[n] \in {"done", "raised"}
    /\ LET ex == executed \cup Range(ready)
           deg == DecAll(ready, 1, in_degree)
           h == LoopHead(nodes, deg, ex)
       IN /\ executed' = ex
          /\ in_degree' = deg
          /\ ppc' = h.pc
          /\ ready' = h.ready
    /\ UNCHANGED <<successors, predecessors, nodes, nstatus, starts, ctx, ctxrefs, bvars, cvars, lvars, gvars, ovars, xvars>>

\* mutant: gather cancels the other tasks of the frontier when it re-raises
GatherRaiseCancels ==
    /\ ppc = "gather"
    /\ \E n \in Range(ready) : nstatus[n] = "raised"
    /\ ppc' = "raised"
    /\ nstatus' = [n \in DOMAIN nstatus |->
                      IF n \in Range(ready) /\ nstatus[n] \in {"idle", "running"}
                      THEN "raised" ELSE nstatus[n]]
    /\ UNCHANGED <<successors, predecessors, nodes, in_degree, executed, ready, starts, ctx, ctxrefs, bvars, cvars, lvars, gvars, ovars, xvars>>

\* gather (no return_exceptions) re-raises the first exception into run;
\* the sibling tasks are left as they are
GatherRaise ==
    /\ ppc = "gather"
    /\ \E n \in Range(ready) : nstatus[n] = "raised"
    /\ ppc' = "raised"
    /\ UNCHANGED <<successors, predecessors, nodes, in_degree, executed, ready, nstatus, starts, ctx, ctxrefs, bvars, cvars, lvars, gvars, ovars, xvars>>

\* ------------------------------------------------------------------------
\* autoenv/pipeline/generator/pipeline.py, autoenv/pipeline/visual/pipeline.py
\* ------------------------------------------------------------------------

\* the operands of the >> expression of GeneratorPipeline.create_default,
\* lines 55-64, by node_id
GeneratorNodes ==
    << "env_desc", "env_yaml", "env_code", "env_validator", "code_fix",
       "level_gen", "max_reward", "archive" >>

\* the operands of the >> expression of AutoEnvPipeline.create_default, line
\* 86, by the name of the local that holds the node
VisualNodes == << "analyzer", "strategist", "asset_generator", "bg_removal", "assembly" >>

\* create_default has made its nodes and is about to evaluate the expression
BuildByFactory(operands) ==
    [root |-> "", first |-> operands[1], lhs |-> operands[1], rest |-> Tail(operands)]

\* mutant: a >> b returns a
RshiftReturnsSelf(a, b) == a

\* BaseNode.__rshift__: return self.add(other), and add returns its argument
RshiftResult(a, b) == b

\* the next >> of the expression: its left operand is the value of the part
\* of the expression evaluated so far
Rshift ==
    /\ ppc = "build"
    /\ build.root = ""
    /\ build.rest # <<>>
    /\ LET a == build.lhs
           b == Head(build.rest)
       IN /\ successors' = AddSuccessors(a, b)
          /\ predecessors' = AddPredecessors(a, b)
          /\ build' = [build EXCEPT !.lhs = RshiftResult(a, b), !.rest = Tail(@)]
    /\ UNCHANGED <<ppc, nodes, in_degree, executed, ready, nstatus, starts, ctx, ctxrefs, bvars, cvars, lvars, ovars, xvars>>

\* return cls(root=env_desc) / cls(root=analyzer)
CreatePipeline ==
    /\ ppc = "build"
    /\ build.root = ""
    /\ build.rest = <<>>
    /\ build' = [build EXCEPT !.root = build.first]
    /\ UNCHANGED <<pvars, bvars, cvars, lvars, ovars, xvars>>

\* GeneratorPipeline.run / AutoEnvPipeline.run: super().run(ctx) on the
\* pipeline create_default returned, with the context made for the run
FactoryRunStart ==
    /\ build.root # ""
    /\ RunStart

\* ------------------------------------------------------------------------
\* benchmarks/base/benchmark.py : values and inputs
\* ------------------------------------------------------------------------

\* Python None. An optional number is None or <<n>>; a quotient a / b is the
\* exact fraction <<a, b>>.
None == <<>>

\* the workload directories a caller points env_folder_path at
Envs == {"envA", "envB"}

WorldIds == 1..MaxWorlds

\* d.get(k, default)
DictGet(d, k, default) == IF k \in DOMAIN d THEN d[k] ELSE default

\* d[k] = v
DictSet(d, k, v) == [x \in (DOMAIN d) \cup {k} |-> IF x = k THEN v ELSE d[x]]

\* truthiness of a number, as in `x if m else None`
Truthy(x) == x # 0

\* opt or 0
OrZero(opt) == IF opt = None THEN 0 ELSE opt[1]

RECURSIVE SumList(_)
SumList(s) == IF s = <<>> THEN 0 ELSE Head(s) + SumList(Tail(s))

\* sorted(S)
RECURSIVE SortedList(_)
SortedList(S) ==
    IF S = {}
    THEN <<>>
    ELSE LET m == CHOOSE x \in S : \A y \in S : x <= y
         IN <<m>> \o SortedList(S \ {m})

\* s[:k] for k >= 0
Take(s, k) == SubSeq(s, 1, IF k < Len(s) THEN k ELSE Len(s))

\* level_max_rewards.json of each workload as _load_max_rewards returns it:
\* envA gives every level a ceiling, envB only level 1
LoadMaxRewards(env) ==
    IF env = "envA" THEN [id \in WorldIds |-> 1000] ELSE [id \in {1} |-> 1000]

\* the *.yaml stems in the two level directories of a workload when they are
\* listed: levels/ holds every level, val_levels/ all but level 1
LevelDirs(env) == [levels |-> WorldIds, val_levels |-> WorldIds \ {1}]

\* what solver.run(env, env_info) returns for a level: the jobs are
\* deterministic, a level of a workload always plays out the same way
SolverResult(env, world_id) ==
    CASE env = "envA" /\ world_id = 1 ->
            [total_reward |-> <<999>>, step |-> <<3>>,
             events_count |-> [goal |-> 2, fall |-> 1]]
      [] env = "envA" /\ world_id = 2 ->
            [total_reward |-> None, step |-> None, events_count |-> None]
      [] env = "envB" /\ world_id = 2 ->
            [total_reward |-> <<999>>, step |-> <<1>>, events_count |-> [fall |-> 1]]
      [] OTHER ->
            [total_reward |-> <<1000>>, step |-> <<2>>, events_count |-> [goal |-> 1]]

\* a level file is absent, parses, or is malformed YAML
FileStates == {"absent", "ok", "bad"}

\* agent_instruction.txt / action_space.txt / config.yaml as _get_env_info
\* reads them: envA has termination.max_steps, envB has no config.yaml
EnvInfoGood(env) ==
    [agent_instruction |-> "text", action_space |-> "text",
     max_steps |-> IF env = "envA" THEN <<50>> ELSE None]

EnvInfoStates(env) ==
    { EnvInfoGood(env),
      [EnvInfoGood(env) EXCEPT !.agent_instruction = ""],
      [EnvInfoGood(env) EXCEPT !.action_space = ""] }

\* what _load_env finds in env_main.py
EnvMainStates == {"ok", "absent", "import_fails", "no_subclass"}

\* world_mode values a caller passes (already lower-cased by str.lower())
WorldModes == {"test", "val", "dev"}

\* ------------------------------------------------------------------------
\* benchmarks/base/benchmark.py : loading a work item
\* ------------------------------------------------------------------------

\* _list_env_worlds: the sorted stems of the chosen directory
ListEnvWorlds(dirs, mode) ==
    SortedList(IF mode = "val" THEN dirs.val_levels ELSE dirs.levels)

\* execute, lines 438-440
NormalizeMode(world_mode) ==
    IF world_mode \in {"test", "val"} THEN world_mode ELSE "test"

\* _validate_level: the first candidate that exists decides
ValidateLevel(files) ==
    IF files.val_levels # "absent" THEN files.val_levels = "ok"
    ELSE IF files.levels # "absent" THEN files.levels = "ok"
    ELSE FALSE

\* _validate_level, lines 141-146: the directory of the first candidate that
\* exists, the one whose file decides
ValidatedDir(files) ==
    IF files.val_levels # "absent" THEN "val_levels" ELSE "levels"

\* _load_env_world, lines 212-217: the level file the environment will open
EffectiveWorldId(id, files) ==
    IF files.levels = "absent" /\ files.val_levels # "absent"
    THEN [dir |-> "val_levels", id |-> id]
    ELSE [dir |-> "levels", id |-> id]

\* mutant: every failure of _load_env carries the same message
LoadEnvOneMessage(envmain) ==
    IF envmain = "ok" THEN "ok" ELSE "env_main.py not found"

\* _load_env: the class, or the error it raises
LoadEnv(envmain) ==
    CASE envmain = "absent" -> "env_main.py not found"
      [] envmain = "import_fails" -> "Failed to load env module"
      [] envmain = "no_subclass" -> "No valid SkinEnv subclass found"
      [] OTHER -> "ok"

\* _load_env_world: (wrapped_env, env_info), or the error it raises
LoadEnvWorld(id, files, info, envmain) ==
    IF ~ValidateLevel(files)
    THEN [ok |-> FALSE, error |-> "Level is missing or invalid", env_info |-> None]
    ELSE IF info.agent_instruction = "" \/ info.action_space = ""
    THEN [ok |-> FALSE, error |-> "Environment missing required files", env_info |-> None]
    ELSE IF LoadEnv(envmain) # "ok"
    THEN [ok |-> FALSE, error |-> LoadEnv(envmain), env_info |-> None]
    ELSE [ok |-> TRUE, error |-> "",
          env_info |-> [world_id |-> EffectiveWorldId(id, files),
                        max_step |-> info.max_steps]]

\* ------------------------------------------------------------------------
\* benchmarks/base/benchmark.py : aggregation
\* ------------------------------------------------------------------------

\* _calculate_max_reward_total: the filtered dict stored per env
FilteredMaxRewards(env, world_ids) ==
    [id \in Range(world_ids) |-> DictGet(LoadMaxRewards(env), id, 0)]

MaxRewardTotal(env, world_ids) ==
    SumList([i \in 1..Len(world_ids) |-> FilteredMaxRewards(env, world_ids)[world_ids[i]]])

\* mutant: the guard tests the reward instead of the maximum
RatioGuardOnReward(reward, max_reward) ==
    IF Truthy(reward) THEN <<reward, max_reward>> ELSE None

\* (reward / max_reward) if max_reward else None
Ratio(reward, max_reward) ==
    IF Truthy(max_reward) THEN <<reward, max_reward>> ELSE None

\* (total / world_count) if world_count else None
Average(total, world_count) ==
    IF Truthy(world_count) THEN <<total, world_count>> ELSE None

\* mutant: only a ratio of exactly one counts
ExactlyOne(f) == f[1] = f[2]

\* value >= 0.999 for a fraction
AtLeast999(f) ==
    IF f[2] > 0 THEN 1000 * f[1] >= 999 * f[2] ELSE 1000 * f[1] <= 999 * f[2]

\* aggregated_events[event_name] += int(count) for one result
AddEvents(agg, ev) ==
    [k \in (DOMAIN agg) \cup (DOMAIN ev) |-> DictGet(agg, k, 0) + DictGet(ev, k, 0)]

\* the loop of lines 475-485 over raw_results, onto the totals so far
RECURSIVE AggregateEventsOnto(_, _)
AggregateEventsOnto(raw, start) ==
    IF raw = <<>>
    THEN start
    ELSE AggregateEventsOnto(Tail(raw), AddEvents(start, Head(raw).result.events_count))

\* aggregated_events starts as an empty defaultdict(int), line 471
AggregateEvents(raw) == AggregateEventsOnto(raw, <<>>)

\* the world_details entry of one raw result, lines 476-498
WorldDetail(r, per_world_max) ==
    LET reward == OrZero(r.result.total_reward)
        max_reward_world == DictGet(per_world_max, r.world_id, 0)
    IN [world_id |-> r.world_id,
        reward |-> reward,
        steps |-> OrZero(r.result.step),
        events_count |-> r.result.events_count,
        max_reward |-> max_reward_world,
        ratio |-> Ratio(reward, max_reward_world),
        max_step |-> r.env_info.max_step]

WorldDetails(raw, per_world_max) ==
    [i \in 1..Len(raw) |-> WorldDetail(raw[i], per_world_max)]

\* sum(world_rewards)
TotalReward(details) == SumList([i \in 1..Len(details) |-> details[i].reward])

\* ------------------------------------------------------------------------
\* benchmarks/base/benchmark.py : the report row and the report file
\* ------------------------------------------------------------------------

\* list(row.keys()), lines 331-347
FieldNames ==
    << "env_folder_path", "llm", "total_reward", "max_reward_total", "ratio",
       "cost", "timestamp", "world_count", "world_ids", "avg_reward_per_world",
       "total_steps", "avg_steps_per_world", "success_worlds", "events_summary",
       "duration_seconds" >>

\* success_worlds, lines 328-329
SuccessWorlds(details) ==
    Cardinality({i \in 1..Len(details) :
                    details[i].ratio # None /\ AtLeast999(details[i].ratio)})

\* the row dict of _save_env_result_to_csv, lines 311-347, from the fields b
ResultRow(b) ==
    LET env_path == b.resultsKeys[Len(b.resultsKeys)]
        total_reward == DictGet(b.results, env_path, 0)
        max_reward_total == DictGet(b.max_rewards, env_path, 0)
        world_details == DictGet(b.world_details, env_path, <<>>)
        loaded_world_ids == DictGet(b.env_world_ids, env_path, <<>>)
        world_ids == IF loaded_world_ids # <<>>
                     THEN loaded_world_ids
                     ELSE [i \in 1..Len(world_details) |-> world_details[i].world_id]
        world_count == Len(world_ids)
        total_steps == SumList([i \in 1..Len(world_details) |-> world_details[i].steps])
    IN [env_folder_path |-> env_path,
        llm |-> "",
        total_reward |-> total_reward,
        max_reward_total |-> max_reward_total,
        ratio |-> Ratio(total_reward, max_reward_total),
        cost |-> DictGet(b.costs, env_path, None),
        timestamp |-> "ts",
        world_count |-> world_count,
        world_ids |-> world_ids,
        avg_reward_per_world |-> Average(total_reward, world_count),
        total_steps |-> total_steps,
        avg_steps_per_world |-> Average(total_steps, world_count),
        success_worlds |-> SuccessWorlds(world_details),
        events_summary |-> DictGet(b.event_totals, env_path, <<>>),
        duration_seconds |-> DictGet(b.env_durations, env_path, None)]

\* csv text of a value: None is written as the empty string
OptStr(o) == IF o = None THEN "" ELSE ToString(o[1])

FracStr(f) == IF f = None THEN "" ELSE ToString(f[1]) \o "/" \o ToString(f[2])

\* "|".join(world_ids)
RECURSIVE JoinIds(_)
JoinIds(ids) ==
    IF ids = <<>> THEN ""
    ELSE IF Len(ids) = 1 THEN ToString(ids[1])
    ELSE ToString(ids[1]) \o "|" \o JoinIds(Tail(ids))

\* json.dumps(events_summary) if events_summary else ""
EventsStr(ev) ==
    LET One(k) == IF k \in DOMAIN ev THEN k \o ":" \o ToString(ev[k]) \o ";" ELSE ""
    IN One("goal") \o One("fall")

\* the cells DictWriter.writerow(row) writes, in fieldnames order
RowCells(row) ==
    << row.env_folder_path, row.llm, ToString(row.total_reward),
       ToString(row.max_reward_total), FracStr(row.ratio), OptStr(row.cost),
       row.timestamp, ToString(row.world_count), JoinIds(row.world_ids),
       FracStr(row.avg_reward_per_world), ToString(row.total_steps),
       FracStr(row.avg_steps_per_world), ToString(row.success_worlds),
       EventsStr(row.events_summary), OptStr(row.duration_seconds) >>

\* csv.DictReader: the first line names the columns, the rest are rows
ReaderFieldNames(lines) == IF lines = <<>> THEN <<>> ELSE lines[1]

ReaderRows(lines) == IF lines = <<>> THEN <<>> ELSE Tail(lines)

\* old_row.get(key, "") for a row read under the header `fieldnames`
OldRowGet(fieldnames, old_row, key) ==
    LET at == {i \in 1..Len(fieldnames) : fieldnames[i] = key /\ i <= Len(old_row)}
    IN IF at = {} THEN ""
       ELSE old_row[CHOOSE i \in at : \A j \in at : j <= i]

\* mutant: old rows are copied by position instead of by column name
MigratedRowByPosition(fieldnames, old_row) ==
    [j \in 1..Len(FieldNames) |-> IF j <= Len(old_row) THEN old_row[j] ELSE ""]

\* new_row = {key: old_row.get(key, "") for key in row.keys()}, line 370
MigratedRow(fieldnames, old_row) ==
    [j \in 1..Len(FieldNames) |-> OldRowGet(fieldnames, old_row, FieldNames[j])]

\* lines 364-372: header plus the old rows in the new layout
MigratedLines(fieldnames, old_rows) ==
    <<FieldNames>> \o [i \in 1..Len(old_rows) |-> MigratedRow(fieldnames, old_rows[i])]

\* mutant: the file is rewritten only when its header has fewer columns
MigrateStoreIfShorter(st) ==
    IF st.exists /\ st.lines # <<>>
       /\ Len(ReaderFieldNames(st.lines)) < Len(FieldNames)
    THEN [exists |-> TRUE,
          lines |-> MigratedLines(ReaderFieldNames(st.lines), ReaderRows(st.lines))]
    ELSE st

\* lines 357-375 on a store nobody else touches meanwhile
MigrateStore(st) ==
    IF st.exists /\ st.lines # <<>> /\ ReaderFieldNames(st.lines) # FieldNames
    THEN [exists |-> TRUE,
          lines |-> MigratedLines(ReaderFieldNames(st.lines), ReaderRows(st.lines))]
    ELSE st

\* lines 379-388: open "a+", header if the file was absent or is empty, row
AppendRow(st, exists, cells) ==
    [exists |-> TRUE,
     lines |-> IF ~exists \/ st.lines = <<>>
               THEN st.lines \o <<FieldNames, cells>>
               ELSE Append(st.lines, cells)]

\* _save_env_result_to_csv as one uninterrupted call
SaveEnvResultToCsv(st, b) ==
    IF b.resultsKeys = <<>>
    THEN st
    ELSE LET m == MigrateStore(st)
         IN AppendRow(m, m.exists, RowCells(ResultRow(b)))

\* report files a run may find at csv_path: written by an older layout that
\* lacked the last column, or a middle one
DropColumn(h, k) == [i \in 1..(Len(h) - 1) |-> IF i < k THEN h[i] ELSE h[i + 1]]

OldLayouts == {DropColumn(FieldNames, Len(FieldNames)), DropColumn(FieldNames, 5)}

OldRow(h, r) == [i \in 1..Len(h) |-> "r" \o ToString(r) \o "." \o h[i]]

InitialStores ==
    { [exists |-> FALSE, lines |-> <<>>],
      [exists |-> TRUE, lines |-> <<>>] }
    \cup { [exists |-> TRUE, lines |-> <<h, OldRow(h, 1), OldRow(h, 2)>>] : h \in OldLayouts }

\* ------------------------------------------------------------------------
\* benchmarks/base/benchmark.py : Benchmark.execute
\* ------------------------------------------------------------------------

\* Benchmark(...) as constructed, no call made yet
BenchFields ==
    [env_folder_path |-> "", results |-> <<>>, resultsKeys |-> <<>>,
     max_rewards |-> <<>>, per_world_max_rewards |-> <<>>, world_details |-> <<>>,
     event_totals |-> <<>>, env_world_ids |-> <<>>, env_durations |-> <<>>,
     costs |-> <<>>]

ExecIdle ==
    [pc |-> "idle", calls |-> 0, env |-> "", mode |-> "test",
     world_mode |-> "test", max_worlds |-> None,    \* the arguments of the call
     world_concurrency |-> 0, semaphore |-> 0, error |-> "",
     earlier |-> <<>>,                              \* history: envs of the calls completed before
     at_raise |-> {},                               \* history: the tasks in flight when execute raised
     store_before |-> [exists |-> FALSE, lines |-> <<>>]]  \* history: the file when the call began

Settled(t) == t.st \in {"done", "failed"}

\* the directory _list_env_worlds globbed for this mode
ModeDir(mode) == IF mode = "val" THEN "val_levels" ELSE "levels"

\* What a work item may find on disk when it is loaded. The file the batch
\* was listed from exists; any one thing may be wrong at a time.
LoadSituations(env, mode) ==
    LET Files == {f \in [levels : FileStates, val_levels : FileStates] :
                     f[ModeDir(mode)] # "absent"}
        GoodFiles == {f \in Files : ValidateLevel(f)}
        SomeGood == CHOOSE f \in GoodFiles : f[ModeDir(mode)] = "ok"
    IN {[files |-> f, info |-> EnvInfoGood(env), envmain |-> "ok"] : f \in Files}
       \cup {[files |-> SomeGood, info |-> i, envmain |-> "ok"] : i \in EnvInfoStates(env)}
       \cup {[files |-> SomeGood, info |-> EnvInfoGood(env), envmain |-> m] : m \in EnvMainStates}

\* gather keeps the first exception any of its tasks raised
FirstError(current, error) == IF current = "" THEN error ELSE current

\* mutant: the admission gate lets every task through
CanAcquireAlways(value) == TRUE

\* asyncio.Semaphore.acquire does not block while the value is positive
\* mutant: a semaphore of value 0 still lets a waiter in
CanAcquireAtZero(value) == value >= 0

CanAcquire(value) == value > 0

\* mutant: the new total is added to the total stored for the env
StoredTotalAccumulated(b, env, details) ==
    DictGet(b.results, env, 0) + TotalReward(details)

\* self.results[env_folder_path] = sum(world_rewards), lines 503-504
StoredTotal(b, env, details) == TotalReward(details)

\* lines 441-443: the batch of the call
SelectWorlds(env, mode, max_worlds) ==
    LET listed == ListEnvWorlds(LevelDirs(env), mode)
    IN IF max_worlds = None THEN listed ELSE Take(listed, max_worlds[1])

\* the fields execute stores before gather, lines 444-447 (env_folder_path
\* is the field the caller has set)
BeforeGather(b, env, world_ids) ==
    [b EXCEPT
        !.env_folder_path = env,
        !.env_world_ids = DictSet(@, env, world_ids),
        !.per_world_max_rewards = DictSet(@, env, FilteredMaxRewards(env, world_ids)),
        !.max_rewards = DictSet(@, env, MaxRewardTotal(env, world_ids))]

\* execute up to the await of asyncio.gather, lines 415-465: the caller has
\* set env_folder_path
Execute(env, world_concurrency, max_worlds, world_mode) ==
    /\ exec.pc = "idle"
    /\ LET mode == NormalizeMode(world_mode)
           world_ids == SelectWorlds(env, mode, max_worlds)
       IN /\ bench' = BeforeGather(bench, env, world_ids)
          /\ exec' = [pc |-> "gather",
                      calls |-> exec.calls + 1,
                      env |-> env,
                      mode |-> mode,
                      world_mode |-> world_mode,
                      max_worlds |-> max_worlds,
                      world_concurrency |-> world_concurrency,
                      semaphore |-> world_concurrency,
                      error |-> "",
                      earlier |-> exec.earlier,
                      at_raise |-> {},
                      store_before |-> store]
          /\ tasks' = [i \in 1..Len(world_ids) |->
                          [world_id |-> world_ids[i], st |-> "waiting",
                           result |-> None, env_info |-> None]]
    /\ UNCHANGED <<store, pvars, cvars, lvars, gvars, ovars, xvars>>

\* run_world_with_semaphore(world_id) passes the gate and run_world runs up to
\* its await: solver created, _load_env_world called. A load error leaves
\* run_world and the `async with` at once, which gives the permit back.
RunWorld(i) ==
    /\ exec.pc \in {"gather", "raised"}
    /\ i \in 1..Len(tasks)
    /\ tasks[i].st = "waiting"
    /\ \A j \in 1..(i - 1) : tasks[j].st # "waiting"
    /\ CanAcquire(exec.semaphore)
    /\ \E sit \in LoadSituations(exec.env, exec.mode) :
          LET r == LoadEnvWorld(tasks[i].world_id, sit.files, sit.info, sit.envmain)
          IN IF r.ok
             THEN /\ tasks' = [tasks EXCEPT ![i].st = "running",
                                            ![i].env_info = r.env_info]
                  /\ exec' = [exec EXCEPT !.semaphore = @ - 1]
             ELSE /\ tasks' = [tasks EXCEPT ![i].st = "failed"]
                  /\ exec' = [exec EXCEPT !.error = FirstError(@, r.error)]
    /\ UNCHANGED <<bench, store, pvars, cvars, lvars, gvars, ovars, xvars>>

\* solver.run returns; run_world returns (world_id, result, env_info)
WorldFinish(i) ==
    /\ i \in 1..Len(tasks)
    /\ tasks[i].st = "running"
    /\ tasks' = [tasks EXCEPT ![i].st = "done",
                               ![i].result = SolverResult(exec.env, tasks[i].world_id)]
    /\ exec' = [exec EXCEPT !.semaphore = @ + 1]
    /\ UNCHANGED <<bench, store, pvars, cvars, lvars, gvars, ovars, xvars>>

\* solver.run raises; the `async with` releases on the way out
WorldRaise(i) ==
    /\ i \in 1..Len(tasks)
    /\ tasks[i].st = "running"
    /\ tasks' = [tasks EXCEPT ![i].st = "failed"]
    /\ exec' = [exec EXCEPT !.semaphore = @ + 1,
                            !.error = FirstError(@, "solver raised")]
    /\ UNCHANGED <<bench, store, pvars, cvars, lvars, gvars, ovars, xvars>>

\* the tasks that hold a permit and have not finished
Unfinished == {i \in 1..Len(tasks) : tasks[i].st = "running"}

\* mutant: gather cancels its other tasks when the first exception arrives
ExecuteRaiseCancels ==
    /\ exec.pc = "gather"
    /\ \E i \in 1..Len(tasks) : tasks[i].st = "failed"
    /\ exec' = [exec EXCEPT !.pc = "raised", !.at_raise = Unfinished,
                            !.semaphore = @ + Cardinality(Unfinished)]
    /\ tasks' = [i \in 1..Len(tasks) |->
                    IF Settled(tasks[i]) THEN tasks[i] ELSE [tasks[i] EXCEPT !.st = "failed"]]
    /\ UNCHANGED <<bench, store, pvars, cvars, lvars, gvars, ovars, xvars>>

\* asyncio.gather re-raises the first task exception into execute, which has
\* no handler: execute raises, lines 467-520 are skipped. Without
\* return_exceptions gather leaves its other tasks as they are.
ExecuteRaise ==
    /\ exec.pc = "gather"
    /\ \E i \in 1..Len(tasks) : tasks[i].st = "failed"
    /\ exec' = [exec EXCEPT !.pc = "raised", !.at_raise = Unfinished]
    /\ UNCHANGED <<bench, tasks, store, pvars, cvars, lvars, gvars, ovars, xvars>>

\* the fields execute stores after gather, lines 467-511
AfterGather(b, env, calls, raw) ==
    LET details == WorldDetails(raw, DictGet(b.per_world_max_rewards, env, <<>>))
    IN [b EXCEPT
           !.env_durations = DictSet(@, env, <<calls>>),
           !.world_details = DictSet(@, env, details),
           !.event_totals = DictSet(@, env, AggregateEvents(raw)),
           !.results = DictSet(@, env, StoredTotal(b, env, details)),
           !.resultsKeys = IF Contains(@, env) THEN @ ELSE Append(@, env),
           !.costs = DictSet(@, env, None)]

\* an execute call on env that ran to its return with every item loaded and
\* played: the fields and the report file it leaves
CompleteCall(b, st, env, calls) ==
    LET world_ids == SelectWorlds(env, "test", None)
        raw == [i \in 1..Len(world_ids) |->
                   [world_id |-> world_ids[i],
                    result |-> SolverResult(env, world_ids[i]),
                    env_info |-> [world_id |-> [dir |-> "levels", id |-> world_ids[i]],
                                  max_step |-> EnvInfoGood(env).max_steps]]]
        after == AfterGather(BeforeGather(b, env, world_ids), env, calls, raw)
    IN [bench |-> after, store |-> SaveEnvResultToCsv(st, after)]

RECURSIVE Replay(_, _, _, _)
Replay(hist, k, b, st) ==
    IF k > Len(hist)
    THEN [bench |-> b, store |-> st]
    ELSE LET r == CompleteCall(b, st, hist[k], k)
         IN Replay(hist, k + 1, r.bench, r.store)

\* the env_folder_path values of the calls made so far
Histories == UNION {[1..n -> Envs] : n \in 0..MaxHistory}

\* gather returns raw_results; execute aggregates, stores, appends the row
\* and returns, lines 467-520
ExecuteReturn ==
    /\ exec.pc = "gather"
    /\ \A i \in 1..Len(tasks) : tasks[i].st = "done"
    /\ bench' = AfterGather(bench, exec.env, exec.calls, tasks)
    /\ store' = SaveEnvResultToCsv(store, bench')
    /\ exec' = [exec EXCEPT !.pc = "returned"]
    /\ UNCHANGED <<tasks, pvars, cvars, lvars, gvars, ovars, xvars>>

\* the exception open() or a write raises in _save_env_result_to_csv
AppendFailed == "report append failed"

\* gather returns raw_results and execute stores the aggregates, lines
\* 467-511; in _save_env_result_to_csv the report file cannot be opened or
\* written (lines 349, 379-388 have no handler): the exception leaves
\* _save_env_result_to_csv and execute, line 512
ExecuteSaveFails ==
    /\ exec.pc = "gather"
    /\ \A i \in 1..Len(tasks) : tasks[i].st = "done"
    /\ bench' = AfterGather(bench, exec.env, exec.calls, tasks)
    /\ exec' = [exec EXCEPT !.pc = "raised", !.error = AppendFailed]
    /\ UNCHANGED <<tasks, store, pvars, cvars, lvars, gvars, ovars, xvars>>

\* ------------------------------------------------------------------------
\* benchmarks/base/benchmark.py : _save_env_result_to_csv, step by step,
\* by several processes on the same csv_path
\* ------------------------------------------------------------------------

Writers == 1..MaxWriters

\* the row dict of a process, as the cells DictWriter writes
WriterRow(w) == [j \in 1..Len(FieldNames) |-> "w" \o ToString(w) \o "." \o FieldNames[j]]

WriterIdle(has_fcntl) ==
    [pc |-> "exists", fcntl |-> has_fcntl, exists |-> FALSE,
     existing_fieldnames |-> <<>>, old_rows |-> <<>>, f |-> 0, buffer |-> <<>>,
     dst |-> 0,               \* shutil.move's copy: the file opened for writing
     migrated |-> FALSE,      \* history: the process replaced the store
     lock_failed |-> FALSE]   \* history: flock(LOCK_EX) raised

\* disk.path is the file csv_path names (0: no such entry); disk.files[i] is
\* the lines of file i; disk.flock[i] is the process holding LOCK_EX on it
\* (disk.before is history: the lines csv_path held before any process began)
DiskOf(lines_or_none) ==
    IF lines_or_none = None
    THEN [path |-> 0, files |-> <<>>, flock |-> <<>>, before |-> <<>>]
    ELSE [path |-> 1, files |-> <<lines_or_none[1]>>, flock |-> <<0>>,
          before |-> lines_or_none[1]]

InitialDisks ==
    { DiskOf(None), DiskOf(<<<<>>>>),
      DiskOf(<<<<FieldNames, OldRow(FieldNames, 1)>>>>) }
    \cup { DiskOf(<<<<h, OldRow(h, 1)>>>>) : h \in OldLayouts }

\* os.path.getsize(csv_path) > 0
PathNonEmpty == disk.path # 0 /\ disk.files[disk.path] # <<>>

\* exists = os.path.exists(csv_path), line 351
CheckExists(w) ==
    /\ writers[w].pc = "exists"
    /\ writers' = [writers EXCEPT ![w].exists = (disk.path # 0), ![w].pc = "size"]
    /\ UNCHANGED <<disk, pvars, bvars, lvars, gvars, ovars, xvars>>

\* if exists and os.path.getsize(csv_path) > 0, line 357
CheckSize(w) ==
    /\ writers[w].pc = "size"
    /\ writers' = [writers EXCEPT
                      ![w].pc = IF writers[w].exists /\ PathNonEmpty THEN "read" ELSE "open"]
    /\ UNCHANGED <<disk, pvars, bvars, lvars, gvars, ovars, xvars>>

\* lines 359-363: DictReader over the file, then the header comparison
\* (existing_fieldnames, old_rows and dst are not read after line 372: the
\* step that ends the migration drops them)
ReadOld(w) ==
    /\ writers[w].pc = "read"
    /\ LET lines == disk.files[disk.path]
       IN writers' = [writers EXCEPT
                         ![w].existing_fieldnames = ReaderFieldNames(lines),
                         ![w].old_rows = ReaderRows(lines),
                         ![w].pc = IF ReaderFieldNames(lines) # FieldNames
                                   THEN "move" ELSE "open"]
    /\ UNCHANGED <<disk, pvars, bvars, lvars, gvars, ovars, xvars>>

\* lines 364-374: the temporary file is written and moved onto csv_path.
\* tempfile.mkstemp puts it in the system's temporary directory; when that is
\* on the filesystem of csv_path, shutil.move is os.rename: csv_path then
\* names the new file
MoveMigrated(w) ==
    /\ writers[w].pc = "move"
    /\ disk' = [disk EXCEPT
                  !.path = Len(disk.files) + 1,
                  !.files = Append(disk.files,
                                   MigratedLines(writers[w].existing_fieldnames,
                                                 writers[w].old_rows)),
                  !.flock = Append(disk.flock, 0)]
    /\ writers' = [writers EXCEPT ![w].exists = TRUE, ![w].migrated = TRUE,
                                  ![w].existing_fieldnames = <<>>,
                                  ![w].old_rows = <<>>, ![w].dst = 0,
                                  ![w].pc = "open"]
    /\ UNCHANGED <<pvars, bvars, lvars, gvars, ovars, xvars>>

\* what a write of the lines `new` at offset 0 leaves of a file holding `cur`
\* (at the granularity of lines: what lies beyond the written part stays)
Overwrite(cur, new) == new \o SubSeq(cur, Len(new) + 1, Len(cur))

\* line 372 when the temporary directory is on another filesystem: os.rename
\* raises and shutil.move copies. copyfile opens csv_path with "wb", which
\* truncates the file csv_path names ...
MoveCopyTruncate(w) ==
    /\ writers[w].pc = "move"
    /\ disk.path # 0
    /\ disk' = [disk EXCEPT !.files[disk.path] = <<>>]
    /\ writers' = [writers EXCEPT ![w].dst = disk.path, ![w].pc = "copy"]
    /\ UNCHANGED <<pvars, bvars, lvars, gvars, ovars, xvars>>

\* ... and then writes the content of the temporary file from offset 0
MoveCopyWrite(w) ==
    /\ writers[w].pc = "copy"
    /\ disk' = [disk EXCEPT
                  !.files[writers[w].dst] =
                      Overwrite(@, MigratedLines(writers[w].existing_fieldnames,
                                                 writers[w].old_rows))]
    /\ writers' = [writers EXCEPT ![w].exists = TRUE, ![w].migrated = TRUE,
                                  ![w].existing_fieldnames = <<>>,
                                  ![w].old_rows = <<>>, ![w].dst = 0,
                                  ![w].pc = "open"]
    /\ UNCHANGED <<pvars, bvars, lvars, gvars, ovars, xvars>>

\* open(csv_path, "a+"), line 379: creates the file when there is none
OpenAppend(w) ==
    /\ writers[w].pc = "open"
    /\ disk' = IF disk.path # 0 THEN disk
               ELSE [disk EXCEPT !.path = Len(disk.files) + 1,
                                 !.files = Append(disk.files, <<>>),
                                 !.flock = Append(disk.flock, 0)]
    /\ writers' = [writers EXCEPT ![w].f = disk'.path,
                                  ![w].pc = IF writers[w].fcntl THEN "lock" ELSE "write"]
    /\ UNCHANGED <<pvars, bvars, lvars, gvars, ovars, xvars>>

\* fcntl.flock(f.fileno(), fcntl.LOCK_EX), lines 380-384: waits for the holder
Lock(w) ==
    /\ writers[w].pc = "lock"
    /\ disk.flock[writers[w].f] = 0
    /\ disk' = [disk EXCEPT !.flock[writers[w].f] = w]
    /\ writers' = [writers EXCEPT ![w].pc = "write"]
    /\ UNCHANGED <<pvars, bvars, lvars, gvars, ovars, xvars>>

\* flock raises (the filesystem has no locks, or none is left): the handler
\* of lines 383-384 passes and the process goes on without the lock
LockFails(w) ==
    /\ writers[w].pc = "lock"
    /\ writers' = [writers EXCEPT ![w].lock_failed = TRUE, ![w].pc = "write"]
    /\ UNCHANGED <<disk, pvars, bvars, lvars, gvars, ovars, xvars>>

\* mutant: a process that does not hold the lock writes nothing
WriteRowOnlyUnderLock(w) ==
    /\ writers[w].pc = "write"
    /\ writers' = [writers EXCEPT
                      ![w].buffer = IF disk.flock[writers[w].f] # w
                                    THEN <<>>
                                    ELSE IF ~writers[w].exists \/ ~PathNonEmpty
                                    THEN <<FieldNames, WriterRow(w)>>
                                    ELSE <<WriterRow(w)>>,
                      ![w].pc = IF writers[w].fcntl THEN "unlock" ELSE "close"]
    /\ UNCHANGED <<disk, pvars, bvars, lvars, gvars, ovars, xvars>>

\* lines 385-388: writeheader / writerow go to the buffer of f
WriteRow(w) ==
    /\ writers[w].pc = "write"
    /\ writers' = [writers EXCEPT
                      ![w].buffer = IF ~writers[w].exists \/ ~PathNonEmpty
                                    THEN <<FieldNames, WriterRow(w)>>
                                    ELSE <<WriterRow(w)>>,
                      ![w].pc = IF writers[w].fcntl THEN "unlock" ELSE "close"]
    /\ UNCHANGED <<disk, pvars, bvars, lvars, gvars, ovars, xvars>>

\* fcntl.flock(f.fileno(), fcntl.LOCK_UN), lines 389-393: releases the lock
\* of this process, if it has it
Unlock(w) ==
    /\ writers[w].pc = "unlock"
    /\ disk' = [disk EXCEPT !.flock[writers[w].f] = IF @ = w THEN 0 ELSE @]
    /\ writers' = [writers EXCEPT ![w].pc = "close"]
    /\ UNCHANGED <<pvars, bvars, lvars, gvars, ovars, xvars>>

\* leaving the with block of line 379: the buffer is flushed to the end of
\* the file f was opened on, and f is closed
Close(w) ==
    /\ writers[w].pc = "close"
    /\ disk' = [disk EXCEPT !.files[writers[w].f] = @ \o writers[w].buffer]
    /\ writers' = [writers EXCEPT ![w].buffer = <<>>, ![w].pc = "done"]
    /\ UNCHANGED <<pvars, bvars, lvars, gvars, ovars, xvars>>

\* ------------------------------------------------------------------------
\* benchmarks/base/benchmark.py : run_world for one work item, step by step:
\* _create_solver, _load_env_world, _load_env, EnvWrapper
\* ------------------------------------------------------------------------

\* str(env_path.resolve()) / env_folder_path: the workload directory
EnvDir == "envdir"

\* directories the process can be in
Dirs == {"orig", "other", EnvDir}

\* sys.path when the item is loaded: the project root, and the workload
\* directory possibly already on it
InitialSysPaths ==
    { <<"root">>, <<EnvDir, "root">>, <<"root", EnvDir>>, <<EnvDir, "root", EnvDir>> }

\* list.remove(x): the first occurrence goes
RECURSIVE RemoveFirst(_, _)
RemoveFirst(s, x) ==
    IF s = <<>> THEN <<>>
    ELSE IF Head(s) = x THEN Tail(s)
    ELSE <<Head(s)>> \o RemoveFirst(Tail(s), x)

LevelError == "Level is missing or invalid"

MetaError == "Environment missing required files"

InitError == "environment constructor raised"

LoaderIdle ==
    [pc |-> "idle", world_id |-> 0, files |-> [levels |-> "ok", val_levels |-> "absent"],
     info |-> EnvInfoGood("envA"), envmain |-> "ok",
     cwd |-> "orig", sys_path |-> <<"root">>,
     original_cwd |-> "", inst_cwd |-> "", call_cwd |-> "", wrapper_cwd |-> "",
     solvers |-> 0, validations |-> 0, info_reads |-> 0, env_loads |-> 0,
     exec_modules |-> 0, instantiations |-> 0,
     module_loaded |-> FALSE, instantiated |-> FALSE, calls |-> 0, error |-> "",
     caller_cwd |-> "orig",          \* history: the directory the process was last put in outside the loader
     sys_path_before |-> <<"root">>] \* history: sys.path when _load_env was entered

\* run_world(world_id) is about to run for an item in the situation sit
LoaderBegin(world_id, sit, cwd, sys_path) ==
    [LoaderIdle EXCEPT !.pc = "run_world", !.world_id = world_id,
                       !.files = sit.files, !.info = sit.info, !.envmain = sit.envmain,
                       !.cwd = cwd, !.caller_cwd = cwd,
                       !.sys_path = sys_path, !.sys_path_before = sys_path]

\* line 452: solver = self._create_solver(solver_factory, solver_kwargs)
CreateSolver ==
    /\ ld.pc = "run_world"
    /\ ld' = [ld EXCEPT !.solvers = @ + 1, !.pc = "validate"]
    /\ UNCHANGED <<pvars, bvars, cvars, gvars, ovars, xvars>>

\* lines 206-207: _validate_level, and the level error
Validate ==
    /\ ld.pc = "validate"
    /\ ld' = IF ValidateLevel(ld.files)
             THEN [ld EXCEPT !.validations = @ + 1, !.pc = "info"]
             ELSE [ld EXCEPT !.validations = @ + 1, !.pc = "raised", !.error = LevelError]
    /\ UNCHANGED <<pvars, bvars, cvars, gvars, ovars, xvars>>

\* lines 220-237: _get_env_info, and the metadata error
GetEnvInfo ==
    /\ ld.pc = "info"
    /\ ld' = IF ld.info.agent_instruction = "" \/ ld.info.action_space = ""
             THEN [ld EXCEPT !.info_reads = @ + 1, !.pc = "raised", !.error = MetaError]
             ELSE [ld EXCEPT !.info_reads = @ + 1, !.pc = "load_env"]
    /\ UNCHANGED <<pvars, bvars, cvars, gvars, ovars, xvars>>

\* _load_env, lines 89-105: env_main.py missing raises at once; otherwise
\* the cwd is saved and the workload directory put on sys.path if not there
LoadEnvEnter ==
    /\ ld.pc = "load_env"
    /\ ld' = IF ld.envmain = "absent"
             THEN [ld EXCEPT !.env_loads = @ + 1, !.sys_path_before = ld.sys_path,
                             !.pc = "raised", !.error = LoadEnv(ld.envmain)]
             ELSE [ld EXCEPT !.env_loads = @ + 1, !.sys_path_before = ld.sys_path,
                             !.original_cwd = ld.cwd,
                             !.sys_path = IF Contains(ld.sys_path, EnvDir)
                                          THEN @ ELSE <<EnvDir>> \o @,
                             !.pc = "chdir"]
    /\ UNCHANGED <<pvars, bvars, cvars, gvars, ovars, xvars>>

\* lines 109-110: os.chdir(env_dir_str), exec_module starts
ExecModule ==
    /\ ld.pc = "chdir"
    /\ ld' = [ld EXCEPT !.cwd = EnvDir, !.exec_modules = @ + 1, !.pc = "in_module"]
    /\ UNCHANGED <<pvars, bvars, cvars, gvars, ovars, xvars>>

\* lines 111-135: exec_module returns or raises; the finally block restores
\* the cwd and removes the workload directory from sys.path; then the
\* SkinEnv subclass is looked up
LoadEnvExit ==
    /\ ld.pc = "in_module"
    /\ ld' = [ld EXCEPT
                 !.cwd = ld.original_cwd,
                 !.sys_path = IF Contains(@, EnvDir) THEN RemoveFirst(@, EnvDir) ELSE @,
                 !.module_loaded = (ld.envmain # "import_fails"),
                 !.pc = IF LoadEnv(ld.envmain) = "ok" THEN "load_env_done" ELSE "raised",
                 !.error = IF LoadEnv(ld.envmain) = "ok" THEN "" ELSE LoadEnv(ld.envmain)]
    /\ UNCHANGED <<pvars, bvars, cvars, gvars, ovars, xvars>>

\* lines 243-247: cwd saved, os.chdir(env_folder_path), env_class(...) starts
InstantiateEnter ==
    /\ ld.pc = "load_env_done"
    /\ ld' = [ld EXCEPT !.inst_cwd = ld.cwd, !.cwd = EnvDir,
                        !.instantiations = @ + 1, !.pc = "in_init"]
    /\ UNCHANGED <<pvars, bvars, cvars, gvars, ovars, xvars>>

\* lines 247-254: the constructor returns or raises, the finally block
\* restores the cwd; EnvWrapper.__init__ notes os.getcwd()
InstantiateExit ==
    /\ ld.pc = "in_init"
    /\ \E raises \in BOOLEAN :
          ld' = IF raises
                THEN [ld EXCEPT !.cwd = ld.inst_cwd, !.pc = "raised", !.error = InitError]
                ELSE [ld EXCEPT !.cwd = ld.inst_cwd, !.instantiated = TRUE,
                                !.wrapper_cwd = ld.inst_cwd, !.pc = "loaded"]
    /\ UNCHANGED <<pvars, bvars, cvars, gvars, ovars, xvars>>

\* mutant: the wrapper goes back to the directory it was created in
RestoreToWrapperCwd(call_cwd, wrapper_cwd) == wrapper_cwd

\* wrapped_method, lines 33 and 38: os.chdir(original_cwd)
RestoreTarget(call_cwd, wrapper_cwd) == call_cwd

\* wrapped_method, lines 33-36: a call of a callable attribute of the
\* wrapped environment begins
WrappedCallEnter ==
    /\ ld.pc = "loaded"
    /\ ld.calls < MaxEnvCalls
    /\ ld' = [ld EXCEPT !.call_cwd = ld.cwd, !.cwd = EnvDir,
                        !.calls = @ + 1, !.pc = "in_call"]
    /\ UNCHANGED <<pvars, bvars, cvars, gvars, ovars, xvars>>

\* wrapped_method, lines 36-38: the call returns or raises; finally restores
WrappedCallExit ==
    /\ ld.pc = "in_call"
    /\ ld' = [ld EXCEPT !.cwd = RestoreTarget(ld.call_cwd, ld.wrapper_cwd),
                        !.pc = "loaded"]
    /\ UNCHANGED <<pvars, bvars, cvars, gvars, ovars, xvars>>

\* between two calls on the environment the process is taken to another
\* directory by the code around them
CallerChdir ==
    /\ ld.pc = "loaded"
    /\ ld.calls < MaxEnvCalls
    /\ \E d \in Dirs \ {ld.cwd} :
          ld' = [ld EXCEPT !.cwd = d, !.caller_cwd = d]
    /\ UNCHANGED <<pvars, bvars, cvars, gvars, ovars, xvars>>

\* ------------------------------------------------------------------------
\* benchmarks/api.py : benchmark_custom_agent, benchmarks/run.py : main,
\* custom-agent branch: one execute call per environment, gathered in one
\* event loop. A task keeps the thread from the point it is resumed to its
\* next await.
\* ------------------------------------------------------------------------

\* the directory the orchestrator was started in
OrigDir == "orig"

\* the work items of the calls: (environment, position in its batch)
Items == UNION {{<<e, i>> : i \in 1..Len(SelectWorlds(e, "test", None))} : e \in Envs}

ItemIdle == [pc |-> "none", original_cwd |-> "", calls |-> 0]

\* nothing has been started: the caller is about to gather the execute calls
CoopIdle ==
    [running |-> None, cwd |-> OrigDir, world_concurrency |-> 0,
     started |-> {}, semaphore |-> [e \in Envs |-> 0],
     items |-> [t \in Items |-> ItemIdle]]

\* mutant: wrapped_method awaits the environment's method inside its window
YieldsInCall(pc) == pc \in {"waiting", "solver", "in_call"}

\* the positions of run_world_with_semaphore at which the coroutine awaits:
\* the semaphore (line 460) and inside solver.run (lines 199-200, 454);
\* _load_env, the constructor call and wrapped_method are plain calls
Yields(pc) == pc \in {"waiting", "solver"}

\* mutant: an item is admitted when any call's semaphore has a permit
HasPermitAnywhere(semaphore, e) == \E x \in DOMAIN semaphore : semaphore[x] > 0

\* async with semaphore, line 460: the semaphore is the one execute made
\* for this call at line 457
HasPermit(semaphore, e) == semaphore[e] > 0

\* execute for environment e runs up to its gather, lines 415-465: it makes
\* its own Semaphore(world_concurrency) and one task per world id; the
\* calls are started in the order the caller listed them
CoopExecute(e) ==
    /\ coop.running = None
    /\ e \notin coop.started
    /\ e = "envB" => "envA" \in coop.started
    /\ coop' = [coop EXCEPT
                   !.started = @ \cup {e},
                   !.semaphore[e] = coop.world_concurrency,
                   !.items = [t \in Items |->
                                 IF t[1] = e
                                 THEN [coop.items[t] EXCEPT !.pc = "waiting"]
                                 ELSE coop.items[t]]]
    /\ UNCHANGED <<pvars, bvars, cvars, lvars, gvars, xvars>>

\* lines 460, 452, 206-237: a waiting item gets a permit of its call's
\* semaphore, in the order of the batch, once every call has reached its
\* gather; the solver is made, the level and the metadata are checked (the
\* item raises if they are bad, leaving the async with)
CoopAdmit(t) ==
    /\ coop.running = None
    /\ coop.started = Envs
    /\ coop.items[t].pc = "waiting"
    /\ \A u \in Items : u[1] = t[1] /\ u[2] < t[2] => coop.items[u].pc # "waiting"
    /\ HasPermit(coop.semaphore, t[1])
    /\ \E ok \in BOOLEAN :
          coop' = IF ok
                  THEN [coop EXCEPT !.semaphore[t[1]] = @ - 1,
                                    !.running = t,
                                    !.items[t].pc = "load_env"]
                  ELSE [coop EXCEPT !.items[t].pc = "failed"]
    /\ UNCHANGED <<pvars, bvars, cvars, lvars, gvars, xvars>>

\* _load_env, lines 96 and 109: the cwd is noted, os.chdir(env_dir_str)
CoopLoadEnter(t) ==
    /\ coop.running = t
    /\ coop.items[t].pc = "load_env"
    /\ coop' = [coop EXCEPT !.items[t].original_cwd = coop.cwd,
                            !.cwd = t[1],
                            !.items[t].pc = "in_module"]
    /\ UNCHANGED <<pvars, bvars, cvars, lvars, gvars, xvars>>

\* lines 110-135: exec_module returns or raises, finally restores the cwd;
\* an item that raises leaves the async with and gives its permit back
CoopLoadExit(t) ==
    /\ coop.running = t
    /\ coop.items[t].pc = "in_module"
    /\ \E ok \in BOOLEAN :
          coop' = IF ok
                  THEN [coop EXCEPT !.cwd = coop.items[t].original_cwd,
                                    !.items[t].original_cwd = "",
                                    !.items[t].pc = "instantiate"]
                  ELSE [coop EXCEPT !.cwd = coop.items[t].original_cwd,
                                    !.items[t].original_cwd = "",
                                    !.items[t].pc = "failed",
                                    !.semaphore[t[1]] = @ + 1,
                                    !.running = None]
    /\ UNCHANGED <<pvars, bvars, cvars, lvars, gvars, xvars>>

\* _load_env_world, lines 244-247: the cwd is noted, os.chdir(env_folder_path)
CoopInstantiateEnter(t) ==
    /\ coop.running = t
    /\ coop.items[t].pc = "instantiate"
    /\ coop' = [coop EXCEPT !.items[t].original_cwd = coop.cwd,
                            !.cwd = t[1],
                            !.items[t].pc = "in_init"]
    /\ UNCHANGED <<pvars, bvars, cvars, lvars, gvars, xvars>>

\* lines 247-254, 454: the constructor returns, finally restores the cwd,
\* and solver.run(env, env_info) begins
CoopInstantiateExit(t) ==
    /\ coop.running = t
    /\ coop.items[t].pc = "in_init"
    /\ coop' = [coop EXCEPT !.cwd = coop.items[t].original_cwd,
                            !.items[t].original_cwd = "",
                            !.items[t].pc = "solver"]
    /\ UNCHANGED <<pvars, bvars, cvars, lvars, gvars, xvars>>

\* wrapped_method, lines 33-36: the solver calls a method of the wrapped
\* environment
CoopCallEnter(t) ==
    /\ coop.running = t
    /\ coop.items[t].pc = "solver"
    /\ coop.items[t].calls < MaxItemCalls
    /\ coop' = [coop EXCEPT !.items[t].original_cwd = coop.cwd,
                            !.cwd = t[1],
                            !.items[t].calls = @ + 1,
                            !.items[t].pc = "in_call"]
    /\ UNCHANGED <<pvars, bvars, cvars, lvars, gvars, xvars>>

\* wrapped_method, lines 36-38: the method returns or raises, finally
\* restores the cwd
CoopCallExit(t) ==
    /\ coop.running = t
    /\ coop.items[t].pc = "in_call"
    /\ coop' = [coop EXCEPT !.cwd = coop.items[t].original_cwd,
                            !.items[t].original_cwd = "",
                            !.items[t].pc = "solver"]
    /\ UNCHANGED <<pvars, bvars, cvars, lvars, gvars, xvars>>

\* the running task reaches an await that does not complete at once: the
\* event loop takes the thread back
CoopSuspend(t) ==
    /\ coop.running = t
    /\ coop.items[t].pc # "waiting"
    /\ Yields(coop.items[t].pc)
    /\ coop' = [coop EXCEPT !.running = None]
    /\ UNCHANGED <<pvars, bvars, cvars, lvars, gvars, xvars>>

\* the event loop resumes a task that was suspended inside run_world
CoopResume(t) ==
    /\ coop.running = None
    /\ coop.items[t].pc \notin {"none", "waiting", "done", "failed"}
    /\ coop' = [coop EXCEPT !.running = t]
    /\ UNCHANGED <<pvars, bvars, cvars, lvars, gvars, xvars>>

\* lines 454-461: solver.run returns, run_world returns, the async with
\* gives the permit back
CoopReturn(t) ==
    /\ coop.running = t
    /\ coop.items[t].pc = "solver"
    /\ coop' = [coop EXCEPT !.items[t].pc = "done",
                            !.items[t].calls = 0,
                            !.semaphore[t[1]] = @ + 1,
                            !.running = None]
    /\ UNCHANGED <<pvars, bvars, cvars, lvars, gvars, xvars>>

\* ------------------------------------------------------------------------
\* autoenv/pipeline/generator/nodes.py : GeneratorContext and the execute
\* methods of the eight nodes of GeneratorPipeline.create_default
\* ------------------------------------------------------------------------

\* GeneratorContext as GeneratorPipeline.run makes it, pipeline.py lines
\* 92-97, nodes.py lines 38-74; `worked` is history: the nodes that went
\* past their guard, `refused` the nodes that recorded an error, in order
GeneratorContextOf(requirements) ==
    [requirements |-> <<requirements>>, env_folder_path |-> None, env_desc |-> None,
     env_yaml |-> None, env_main_code |-> None, success |-> FALSE, error |-> None,
     worked |-> {}, refused |-> <<>>]

\* the requirements a caller passes: a text or the empty string
RequirementsGiven == {"text", ""}

\* the text a node takes out of the reply of the model: the element of the
\* reply may hold a text or be empty
ReplyTexts == {"text", ""}

\* `not value` for a str | None field; a field that holds the text s is <<s>>
Falsy(value) == value = None \/ value = <<"">>

\* the guard at the top of each execute: what the node requires
Requires(n, c) ==
    CASE n = "env_desc" -> ~Falsy(c.requirements)
      [] n = "env_yaml" -> ~Falsy(c.env_desc)
      [] n = "env_code" -> ~Falsy(c.env_desc) /\ ~Falsy(c.env_yaml)
      [] n = "env_validator" -> ~Falsy(c.env_desc) /\ ~Falsy(c.env_main_code)
      [] OTHER -> ~Falsy(c.env_folder_path)

\* the context after the work of node n, the reply giving the text `reply`
Work(n, c, reply) ==
    LET d == [c EXCEPT !.worked = @ \cup {n}]
    IN CASE n = "env_desc" -> [d EXCEPT !.env_folder_path = <<"folder">>, !.env_desc = <<reply>>]
         [] n = "env_yaml" -> [d EXCEPT !.env_yaml = <<reply>>]
         [] n = "env_code" -> [d EXCEPT !.env_main_code = <<reply>>]
         [] n = "archive" -> [d EXCEPT !.success = TRUE]
         [] OTHER -> d

\* execute(ctx) of node n: ctx.error is set and the node returns when its
\* guard fails, otherwise the node does its work
ExecuteNode(n, c, reply) ==
    IF Requires(n, c)
    THEN Work(n, c, reply)
    ELSE [c EXCEPT !.error = <<n \o " requires">>, !.refused = Append(@, n)]

\* node.execute(ctx) of a generator node returns
GeneratorNodeFinish(n) ==
    /\ nstatus[n] = "running"
    /\ nstatus' = [nstatus EXCEPT ![n] = "done"]
    /\ ctx' = ctx \cup {n}
    /\ \E reply \in ReplyTexts : gctx' = ExecuteNode(n, gctx, reply)
    /\ UNCHANGED <<successors, predecessors, ppc, nodes, in_degree, executed, ready, starts, ctxrefs, bvars, cvars, lvars, gvars, ovars>>

\* ------------------------------------------------------------------------
\* _save_env_result_to_csv called once on a report file of another layout
\* ------------------------------------------------------------------------

\* a column an older or newer layout had and the current row does not
LegacyColumn == "legacy"

InsertColumn(h, k, name) ==
    [i \in 1..(Len(h) + 1) |-> IF i < k THEN h[i] ELSE IF i = k THEN name ELSE h[i - 1]]

SwapColumns(h, k) ==
    [i \in 1..Len(h) |-> IF i = k THEN h[k + 1] ELSE IF i = k + 1 THEN h[k] ELSE h[i]]

\* a layout that lacks a column of the row, has one the row lacks and has
\* two columns the other way round
MixedLayout == SwapColumns(InsertColumn(DropColumn(FieldNames, 5), 3, LegacyColumn), 7)

\* headers a report file may have: a column of the row missing, a column
\* more, two neighbours swapped, or all of these
OtherLayouts ==
    {DropColumn(FieldNames, k) : k \in 1..Len(FieldNames)}
    \cup {InsertColumn(FieldNames, k, LegacyColumn) : k \in 1..(Len(FieldNames) + 1)}
    \cup {SwapColumns(FieldNames, k) : k \in 1..(Len(FieldNames) - 1)}
    \cup {MixedLayout}

\* the data rows under such a header: none, full rows, a row with fewer
\* cells than the header, a row with more
OtherRows(h) ==
    { <<>>,
      <<OldRow(h, 1)>>,
      <<OldRow(h, 1), OldRow(h, 2)>>,
      <<SubSeq(OldRow(h, 1), 1, Len(h) - 2)>>,
      <<Append(OldRow(h, 1), "more"), OldRow(h, 2)>> }

\* the fields of a Benchmark that has completed the calls of hist
FieldsAfter(hist) == Replay(hist, 1, BenchFields, [exists |-> FALSE, lines |-> <<>>]).bench

\* _save_env_result_to_csv runs from its first line to its last
SaveCall ==
    /\ exec.pc = "idle"
    /\ store' = SaveEnvResultToCsv(store, bench)
    /\ exec' = [exec EXCEPT !.pc = "saved", !.store_before = store]
    /\ UNCHANGED <<bench, tasks, pvars, cvars, lvars, gvars, ovars, xvars>>

\* ------------------------------------------------------------------------
\* Specifications
\* ------------------------------------------------------------------------

\* run(ctx=arg) has not begun: nobody else holds a context yet
CtxRefsStart(arg) ==
    [arg |-> arg, run |-> 0, created |-> 0, passed |-> [n \in Nodes |-> 0], returned |-> 0]

\* a pipeline made by the caller as BasePipeline(root=root): no >> expression
BuildByCaller == [root |-> "root", first |-> "root", lhs |-> "root", rest |-> <<>>]

GraphStart ==
    /\ build = BuildByCaller
    /\ successors = [n \in Nodes |-> <<>>]
    /\ predecessors = [n \in Nodes |-> <<>>]
    /\ ppc = "build"
    /\ nodes = <<>>
    /\ in_degree = <<>>
    /\ executed = {}
    /\ ready = <<>>
    /\ nstatus = [n \in Nodes |-> "idle"]
    /\ starts = [n \in Nodes |-> 0]
    /\ ctx = {}

\* the caller will call run() without a context
PipelineStart ==
    /\ GraphStart
    /\ ctxrefs = CtxRefsStart(0)

BenchStart ==
    /\ bench = BenchFields
    /\ exec = ExecIdle
    /\ tasks = <<>>

CsvStart ==
    /\ coop = CoopIdle
    /\ gctx = GeneratorContextOf("")
    /\ writers = [w \in Writers |-> WriterIdle(TRUE)]
    /\ disk = DiskOf(None)
    /\ ld = LoaderIdle

PipelineInit ==
    /\ PipelineStart
    /\ BenchStart
    /\ CsvStart
    /\ store = [exists |-> FALSE, lines |-> <<>>]

RunStep ==
    \/ \E n \in Nodes : NodeStart(n)
    \/ \E n \in Nodes : NodeFinish(n)
    \/ \E n \in Nodes : NodeRaise(n)
    \/ GatherDone
    \/ GatherRaise

PipelineNext ==
    \/ \E a \in Nodes, b \in Nodes : Add(a, b)
    \/ RunStart
    \/ \E n \in Nodes : NodeStart(n)
    \/ \E n \in Nodes : NodeFinish(n)
    \/ \E n \in Nodes : NodeRaise(n)
    \/ GatherDone
    \/ GatherRaise

PipelineSpec == PipelineInit /\ [][PipelineNext]_vars

\* Every started execute eventually returns or raises and the event loop
\* keeps resuming run: weak fairness of the run's steps.
FairPipeline == PipelineSpec /\ WF_vars(RunStep)

\* A pipeline of create_default is built and run with the context its run
\* method makes; a node returns, records an error and returns, or raises.
ChainInit ==
    /\ \E operands \in {GeneratorNodes, VisualNodes} :
          /\ build = BuildByFactory(operands)
          /\ successors = [n \in Range(operands) |-> <<>>]
          /\ predecessors = [n \in Range(operands) |-> <<>>]
          /\ nstatus = [n \in Range(operands) |-> "idle"]
          /\ starts = [n \in Range(operands) |-> 0]
          /\ ctxrefs = [arg |-> CallerCtx, run |-> 0, created |-> 0,
                        passed |-> [n \in Range(operands) |-> 0], returned |-> 0]
    /\ ppc = "build"
    /\ nodes = <<>>
    /\ in_degree = <<>>
    /\ executed = {}
    /\ ready = <<>>
    /\ ctx = {}
    /\ BenchStart
    /\ CsvStart
    /\ store = [exists |-> FALSE, lines |-> <<>>]

ChainNext ==
    \/ Rshift
    \/ CreatePipeline
    \/ FactoryRunStart
    \/ \E n \in DOMAIN nstatus : NodeStart(n)
    \/ \E n \in DOMAIN nstatus : NodeFinish(n)
    \/ \E n \in DOMAIN nstatus : NodeFinishError(n)
    \/ \E n \in DOMAIN nstatus : NodeRaise(n)
    \/ GatherDone
    \/ GatherRaise

ChainSpec == ChainInit /\ [][ChainNext]_vars

\* Runs in which no node raises: the caller passes a context or none, and a
\* node may record an error in the context and return.
ContextInit ==
    /\ GraphStart
    /\ ctxrefs \in {CtxRefsStart(arg) : arg \in {0, CallerCtx}}
    /\ BenchStart
    /\ CsvStart
    /\ store = [exists |-> FALSE, lines |-> <<>>]

ContextNext ==
    \/ \E a \in Nodes, b \in Nodes : Add(a, b)
    \/ RunStart
    \/ \E n \in Nodes : NodeStart(n)
    \/ \E n \in Nodes : NodeFinish(n)
    \/ \E n \in Nodes : NodeFinishError(n)
    \/ GatherDone

ContextSpec == ContextInit /\ [][ContextNext]_vars

\* One Benchmark instance that has completed the execute calls of `hist`
\* (each on its whole levels/ directory) since construction, and the report
\* file as those calls left it; one more execute call is then followed
\* step by step.
BenchInit ==
    /\ PipelineStart
    /\ CsvStart
    /\ tasks = <<>>
    /\ \E hist \in Histories, st \in InitialStores :
          LET r == Replay(hist, 1, BenchFields, st)
          IN /\ bench = r.bench
             /\ store = r.store
             /\ exec = [ExecIdle EXCEPT !.calls = Len(hist), !.earlier = hist]

BenchNext ==
    \/ \E env \in Envs, k \in 0..MaxWorlds,
          max_worlds \in {None} \cup {<<m>> : m \in 0..MaxWorlds},
          world_mode \in WorldModes :
          Execute(env, k, max_worlds, world_mode)
    \/ \E i \in WorldIds : RunWorld(i)
    \/ \E i \in WorldIds : WorldFinish(i)
    \/ \E i \in WorldIds : WorldRaise(i)
    \/ ExecuteRaise
    \/ ExecuteReturn
    \/ ExecuteSaveFails

BenchSpec == BenchInit /\ [][BenchNext]_vars

\* the steps the event loop takes for a call that is under way
BenchStep ==
    \/ \E i \in WorldIds : RunWorld(i)
    \/ \E i \in WorldIds : WorldFinish(i)
    \/ \E i \in WorldIds : WorldRaise(i)
    \/ ExecuteRaise
    \/ ExecuteReturn
    \/ ExecuteSaveFails

\* Every solver.run eventually returns or raises and the event loop keeps
\* resuming the tasks and execute: weak fairness of the call's steps.
FairBench == BenchSpec /\ WF_vars(BenchStep)

\* MaxWriters processes, each with a row to save, enter
\* _save_env_result_to_csv for the same csv_path; fcntl can be imported on
\* the platform or not.
CsvInit ==
    /\ PipelineStart
    /\ BenchStart
    /\ store = [exists |-> FALSE, lines |-> <<>>]
    /\ disk \in InitialDisks
    /\ ld = LoaderIdle
    /\ coop = CoopIdle
    /\ gctx = GeneratorContextOf("")
    /\ \E has_fcntl \in BOOLEAN : writers = [w \in Writers |-> WriterIdle(has_fcntl)]

CsvNext ==
    \/ \E w \in Writers : CheckExists(w)
    \/ \E w \in Writers : CheckSize(w)
    \/ \E w \in Writers : ReadOld(w)
    \/ \E w \in Writers : MoveMigrated(w)
    \/ \E w \in Writers : MoveCopyTruncate(w)
    \/ \E w \in Writers : MoveCopyWrite(w)
    \/ \E w \in Writers : OpenAppend(w)
    \/ \E w \in Writers : Lock(w)
    \/ \E w \in Writers : LockFails(w)
    \/ \E w \in Writers : WriteRow(w)
    \/ \E w \in Writers : Unlock(w)
    \/ \E w \in Writers : Close(w)

CsvSpec == CsvInit /\ [][CsvNext]_vars

\* run_world is called for one item of a batch listed under some mode, in
\* any of the situations an item may find on disk, from either directory
\* the orchestrator may be in, with the workload directory on sys.path or not.
LoaderInit ==
    /\ PipelineStart
    /\ BenchStart
    /\ store = [exists |-> FALSE, lines |-> <<>>]
    /\ writers = [w \in Writers |-> WriterIdle(TRUE)]
    /\ disk = DiskOf(None)
    /\ coop = CoopIdle
    /\ gctx = GeneratorContextOf("")
    /\ \E env \in Envs, mode \in {"test", "val"}, cwd \in {"orig", "other"},
          sys_path \in InitialSysPaths :
          \E sit \in LoadSituations(env, mode), world_id \in Range(SelectWorlds(env, mode, None)) :
             ld = LoaderBegin(world_id, sit, cwd, sys_path)

LoaderNext ==
    \/ CreateSolver
    \/ Validate
    \/ GetEnvInfo
    \/ LoadEnvEnter
    \/ ExecModule
    \/ LoadEnvExit
    \/ InstantiateEnter
    \/ InstantiateExit
    \/ WrappedCallEnter
    \/ WrappedCallExit
    \/ CallerChdir

LoaderSpec == LoaderInit /\ [][LoaderNext]_vars

\* The caller gathers one execute call per environment, all with the same
\* world_concurrency, from the directory it was started in.
CoopInit ==
    /\ PipelineStart
    /\ BenchStart
    /\ store = [exists |-> FALSE, lines |-> <<>>]
    /\ writers = [w \in Writers |-> WriterIdle(TRUE)]
    /\ disk = DiskOf(None)
    /\ ld = LoaderIdle
    /\ gctx = GeneratorContextOf("")
    /\ \E k \in 1..MaxWorlds : coop = [CoopIdle EXCEPT !.world_concurrency = k]

CoopNext ==
    \/ \E e \in Envs : CoopExecute(e)
    \/ \E t \in Items : CoopAdmit(t)
    \/ \E t \in Items : CoopLoadEnter(t)
    \/ \E t \in Items : CoopLoadExit(t)
    \/ \E t \in Items : CoopInstantiateEnter(t)
    \/ \E t \in Items : CoopInstantiateExit(t)
    \/ \E t \in Items : CoopCallEnter(t)
    \/ \E t \in Items : CoopCallExit(t)
    \/ \E t \in Items : CoopSuspend(t)
    \/ \E t \in Items : CoopResume(t)
    \/ \E t \in Items : CoopReturn(t)

CoopSpec == CoopInit /\ [][CoopNext]_vars

\* GeneratorPipeline.create_default() is built and run(requirements) called
\* on it; a node returns, or raises when the model or a file operation does.
GeneratorInit ==
    /\ build = BuildByFactory(GeneratorNodes)
    /\ successors = [n \in Range(GeneratorNodes) |-> <<>>]
    /\ predecessors = [n \in Range(GeneratorNodes) |-> <<>>]
    /\ nstatus = [n \in Range(GeneratorNodes) |-> "idle"]
    /\ starts = [n \in Range(GeneratorNodes) |-> 0]
    /\ ctxrefs = [arg |-> CallerCtx, run |-> 0, created |-> 0,
                  passed |-> [n \in Range(GeneratorNodes) |-> 0], returned |-> 0]
    /\ ppc = "build"
    /\ nodes = <<>>
    /\ in_degree = <<>>
    /\ executed = {}
    /\ ready = <<>>
    /\ ctx = {}
    /\ BenchStart
    /\ writers = [w \in Writers |-> WriterIdle(TRUE)]
    /\ disk = DiskOf(None)
    /\ ld = LoaderIdle
    /\ coop = CoopIdle
    /\ store = [exists |-> FALSE, lines |-> <<>>]
    /\ \E requirements \in RequirementsGiven : gctx = GeneratorContextOf(requirements)

GeneratorNext ==
    \/ Rshift
    \/ CreatePipeline
    \/ FactoryRunStart
    \/ \E n \in DOMAIN nstatus : NodeStart(n)
    \/ \E n \in DOMAIN nstatus : GeneratorNodeFinish(n)
    \/ \E n \in DOMAIN nstatus : NodeRaise(n)
    \/ GatherDone
    \/ GatherRaise

GeneratorSpec == GeneratorInit /\ [][GeneratorNext]_vars

\* A Benchmark that has completed some execute calls saves its row into a
\* report file that a program with another column list wrote.
MigrationInit ==
    /\ PipelineStart
    /\ CsvStart
    /\ tasks = <<>>
    /\ \E hist \in Histories, h \in OtherLayouts :
          \E rows \in OtherRows(h) :
             /\ bench = FieldsAfter(hist)
             /\ store = [exists |-> TRUE, lines |-> <<h>> \o rows]
             /\ exec = [ExecIdle EXCEPT !.calls = Len(hist), !.earlier = hist]

MigrationNext == SaveCall

MigrationSpec == MigrationInit /\ [][MigrationNext]_vars

\* ------------------------------------------------------------------------
\* Graph facts, computed from the edge lists independently of the scheduler
\* ------------------------------------------------------------------------

RECURSIVE Closure(_)
Closure(S) ==
    LET T == S \cup UNION {Range(successors[n]) : n \in S}
    IN IF T = S THEN S ELSE Closure(T)

\* nodes reachable from the root via successor edges
Reachable == Closure({Root})

OnCycle(n) == n \in Closure(Range(successors[n]))

Acyclic == \A n \in Nodes : ~OnCycle(n)

CycleReachable == \E n \in Reachable : OnCycle(n)

RunBegun == ppc # "build"

SomeNodeRaised == \E n \in Nodes : nstatus[n] = "raised"

IsDiamond ==
    /\ Range(successors["root"]) = {"B", "C"}
    /\ Range(successors["B"]) = {"D"}
    /\ Range(successors["C"]) = {"D"}
    /\ successors["D"] = <<>>

\* ------------------------------------------------------------------------
\* Claims about BasePipeline.run
\* ------------------------------------------------------------------------

\* C1: for every acyclic node graph, once run has ended without a node fault
\* it has returned the context and every node reachable from the root has
\* been executed exactly once.
C1_AcyclicRunsEveryNodeOnce ==
    (Acyclic /\ ppc \in {"returned", "cycle_error"})
        => /\ ppc = "returned"
           /\ \A n \in Reachable : starts[n] = 1 /\ nstatus[n] = "done"

\* C2: a node whose execute has started has every node of its predecessors
\* list finished, with that predecessor's context key already written.
C2_NoStartBeforePredecessors ==
    \A n \in Nodes :
        starts[n] > 0
            => \A p \in Range(predecessors[n]) : nstatus[p] = "done" /\ p \in ctx

\* the diamond root -> {B, C} -> D with D started
C2_Witness == IsDiamond /\ nstatus["D"] = "running"

\* C3: when a cycle is reachable from the root, run never returns the context
\* and it ends: with the cycle-detected error, unless a node's own fault ended
\* it first.
C3_CycleIsDetected ==
    [](RunBegun /\ CycleReachable
        => /\ ppc # "returned"
           /\ <>(ppc = "cycle_error" \/ (ppc = "raised" /\ SomeNodeRaised)))

\* a cycle below the root: the root has run, then the error is raised
C3_Witness ==
    /\ CycleReachable
    /\ ppc = "cycle_error"
    /\ nstatus[Root] = "done"
    /\ \E n \in Reachable : starts[n] = 0

\* ------------------------------------------------------------------------
\* Claims about Benchmark.execute and the report file
\* ------------------------------------------------------------------------

\* items that have entered run_world and not yet left it
InFlight == {i \in 1..Len(tasks) : tasks[i].st = "running"}

FailedTasks == {i \in 1..Len(tasks) : tasks[i].st = "failed"}

DoneTasks == {i \in 1..Len(tasks) : tasks[i].st = "done"}

CallOver == exec.pc \in {"returned", "raised"}

DataRows(st) == IF st.lines = <<>> THEN <<>> ELSE Tail(st.lines)

LastLine(st) == st.lines[Len(st.lines)]

\* position of a column in a header (0 when it is not there)
ColumnAt(header, name) ==
    IF \E i \in 1..Len(header) : header[i] = name
    THEN CHOOSE i \in 1..Len(header) : header[i] = name
    ELSE 0

\* sum of f[i] over the set of indices I
RECURSIVE SumOver(_, _)
SumOver(I, f) ==
    IF I = {} THEN 0
    ELSE LET i == CHOOSE x \in I : TRUE IN f[i] + SumOver(I \ {i}, f)

\* C4: with world_concurrency = K >= 1, at most K items are inside run_world.
C4_AtMostKInFlight ==
    exec.world_concurrency >= 1 => Cardinality(InFlight) <= exec.world_concurrency

\* a batch larger than K with K items in flight and one held at the gate
C4_Witness ==
    /\ exec.world_concurrency >= 1
    /\ Len(tasks) > exec.world_concurrency
    /\ Cardinality(InFlight) = exec.world_concurrency
    /\ \E i \in 1..Len(tasks) : tasks[i].st = "waiting"

\* C5: when exactly one item of the batch fails to load because its level
\* file is missing or unparseable and the others run to completion, execute
\* returns normally, a row is appended and the batch total is the sum of the
\* rewards of the other items.
C5_ItemFailureIsIsolated ==
    ( /\ CallOver
      /\ Len(tasks) >= 2
      /\ Cardinality(FailedTasks) = 1
      /\ exec.error = "Level is missing or invalid"
      /\ DoneTasks \cup FailedTasks = 1..Len(tasks) )
    => /\ exec.pc = "returned"
       /\ Len(DataRows(store)) = Len(DataRows(exec.store_before)) + 1
       /\ DictGet(bench.results, exec.env, 0)
            = SumOver(DoneTasks, [i \in DoneTasks |-> OrZero(tasks[i].result.total_reward)])

\* C7: once an execute call is over, the report file has exactly one data
\* row more than when the call began and the rows it had keep their values.
C7_OneRowPerExecute ==
    CallOver
    => LET before == exec.store_before
           old == DataRows(before)
           new == DataRows(store)
       IN /\ Len(new) = Len(old) + 1
          /\ \A r \in 1..Len(old) : \A c \in 1..Len(ReaderFieldNames(before.lines)) :
                LET at == ColumnAt(ReaderFieldNames(store.lines), ReaderFieldNames(before.lines)[c])
                IN at # 0 /\ c <= Len(old[r]) => new[r][at] = old[r][c]

\* the cell of the last line under column `name`
LastCell(name) == LastLine(store)[ColumnAt(FieldNames, name)]

\* the file the call found was written under an older layout, one column short
FoundOldLayout ==
    /\ exec.store_before.exists
    /\ exec.store_before.lines # <<>>
    /\ ReaderFieldNames(exec.store_before.lines) \in OldLayouts

\* C8: a report file whose header lacks a column of the current row is, after
\* one save, a file with the current header, the prior rows in their order
\* with their values under the old columns and the empty string under the new
\* one, and the new row last with the new column filled.
C8_MigrationKeepsRows ==
    (exec.pc = "returned" /\ FoundOldLayout)
    => LET old_header == ReaderFieldNames(exec.store_before.lines)
           old == DataRows(exec.store_before)
           new == DataRows(store)
       IN /\ ReaderFieldNames(store.lines) = FieldNames
          /\ Len(new) = Len(old) + 1
          /\ \A r \in 1..Len(old) :
                /\ Len(new[r]) = Len(FieldNames)
                /\ \A j \in 1..Len(FieldNames) :
                      LET c == ColumnAt(old_header, FieldNames[j])
                      IN new[r][j] = IF c = 0 THEN "" ELSE old[r][c]
          /\ Len(LastLine(store)) = Len(FieldNames)
          /\ LastCell("env_folder_path") # ""
          /\ LastCell("duration_seconds") # ""

\* an old file with the last column missing has been migrated and appended to
C8_Witness ==
    /\ exec.pc = "returned"
    /\ FoundOldLayout
    /\ ReaderFieldNames(exec.store_before.lines) = DropColumn(FieldNames, Len(FieldNames))
    /\ Len(DataRows(exec.store_before)) = 2
    /\ Len(store.lines) = 4

\* the ratio a detail or a row must carry for its reward and maximum
RatioIsQuotient(ratio, reward, max_reward) ==
    IF max_reward # 0 THEN ratio = <<reward, max_reward>> ELSE ratio = None

\* csv text of the quotient of two written numbers, empty when the divisor is "0"
QuotientCell(num, den) == IF den = "0" THEN "" ELSE num \o "/" \o den

\* C9: each item's ratio and the batch ratio are reward / maximum when the
\* maximum is non-zero and None when it is zero; no quotient formed by
\* execute or by the report writer has a zero divisor.
C9_RatioDefinedIffMaxNonZero ==
    /\ \A env \in DOMAIN bench.world_details :
          \A i \in 1..Len(bench.world_details[env]) :
             LET d == bench.world_details[env][i]
             IN RatioIsQuotient(d.ratio, d.reward, d.max_reward)
    /\ (exec.pc = "returned")
       => /\ LastCell("ratio")
               = QuotientCell(LastCell("total_reward"), LastCell("max_reward_total"))
          /\ LastCell("avg_reward_per_world")
               = QuotientCell(LastCell("total_reward"), LastCell("world_count"))
          /\ LastCell("avg_steps_per_world")
               = QuotientCell(LastCell("total_steps"), LastCell("world_count"))

\* a returned batch with one item of maximum zero and a non-zero reward, and
\* one item with a non-zero maximum
C9_Witness ==
    /\ exec.pc = "returned"
    /\ \E i, j \in 1..Len(bench.world_details[exec.env]) :
          LET d == bench.world_details[exec.env][i]
              e == bench.world_details[exec.env][j]
          IN /\ d.max_reward = 0 /\ d.reward # 0 /\ d.ratio = None
             /\ e.max_reward # 0 /\ e.ratio # None

\* a returned batch of no items: world_count is zero
C9_EmptyBatch == exec.pc = "returned" /\ tasks = <<>> /\ LastCell("world_count") = "0"

TaskIds == 1..Len(tasks)

EventNames == {"goal", "fall"}

TaskEvents(i, name) ==
    IF tasks[i].result.events_count = None THEN 0
    ELSE DictGet(tasks[i].result.events_count, name, 0)

\* C10: when execute has returned, the stored total reward of the env is the
\* sum of the item rewards of this run, the stored maximum is the sum of the
\* maxima of the items of this run, each stored event count is the sum of
\* that event over the items, and the steps stored for the items add up to
\* the sum of the item steps, which is what the row of that batch carries;
\* totals a previous call stored for the same env are replaced.
C10_TotalsAreExactSums ==
    (exec.pc = "returned")
    => LET env == exec.env
           details == bench.world_details[env]
           row_details == DictGet(bench.world_details, LastCell("env_folder_path"), <<>>)
       IN /\ bench.results[env]
               = SumOver(TaskIds, [i \in TaskIds |-> OrZero(tasks[i].result.total_reward)])
          /\ bench.max_rewards[env]
               = SumOver(TaskIds, [i \in TaskIds |->
                                      DictGet(LoadMaxRewards(env), tasks[i].world_id, 0)])
          /\ \A name \in EventNames :
                DictGet(bench.event_totals[env], name, 0)
                  = SumOver(TaskIds, [i \in TaskIds |-> TaskEvents(i, name)])
          /\ DOMAIN bench.event_totals[env] \subseteq EventNames
          /\ SumOver(1..Len(details), [i \in 1..Len(details) |-> details[i].steps])
               = SumOver(TaskIds, [i \in TaskIds |-> OrZero(tasks[i].result.step)])
          /\ LastCell("total_steps")
               = ToString(SumOver(1..Len(row_details),
                                  [i \in 1..Len(row_details) |-> row_details[i].steps]))

\* the same env has been run before on this Benchmark with a non-zero total,
\* and has now been run again on a batch of two items
C10_Witness ==
    /\ exec.pc = "returned"
    /\ Contains(exec.earlier, exec.env)
    /\ Len(tasks) = 2
    /\ bench.results[exec.env] # 0

AllWritersDone == \A w \in Writers : writers[w].pc = "done"

\* the lines of the file csv_path names
PathLines == IF disk.path = 0 THEN <<>> ELSE disk.files[disk.path]

\* how many lines of the file are the row of process w
RowCount(w) == Cardinality({i \in 1..Len(PathLines) : PathLines[i] = WriterRow(w)})

\* the data rows the file held before any process began
RowsBefore == {OldRow(h, 1) : h \in OldLayouts \cup {FieldNames}}

\* C6: when all the processes that saved concurrently are done, the report
\* file is one header followed by the rows it had and exactly one complete
\* row of each process: nothing else, nothing missing.
C6_EveryWriterRowOnce ==
    AllWritersDone
    => /\ PathLines # <<>>
       /\ PathLines[1] = FieldNames
       /\ \A w \in Writers : RowCount(w) = 1
       /\ \A i \in 2..Len(PathLines) :
             \/ \E w \in Writers : PathLines[i] = WriterRow(w)
             \/ \E r \in RowsBefore : \A j \in 1..Len(FieldNames) :
                   PathLines[i][j] \in {"", OldRowGet(FieldNames, r, FieldNames[j])}

\* ------------------------------------------------------------------------
\* Claims about faults, the context object and node outcomes in run
\* ------------------------------------------------------------------------

\* the nodes whose execute has been started
Started == {n \in Nodes : starts[n] > 0}

\* C11: once the execute of a node has raised, run never returns the
\* context and never reports a cycle instead, the failed node is not marked
\* executed, only nodes of the frontiers up to the current one have been
\* started, and run has raised to its caller or its next step is to raise.
C11_NodeFaultIsFatal ==
    SomeNodeRaised
    => /\ ppc \in {"gather", "raised"}
       /\ \A n \in Nodes : nstatus[n] = "raised" => n \in Range(ready) /\ n \notin executed
       /\ Started \subseteq executed \cup Range(ready)
       /\ ppc = "gather" => ENABLED GatherRaise /\ ~ENABLED GatherDone

\* run has raised after a node of the first frontier failed, and a node that
\* only waited for that frontier was never started
C11_Witness ==
    /\ ppc = "raised"
    /\ nstatus[Root] = "raised"
    /\ \E n \in Reachable : n # Root /\ starts[n] = 0

\* C19: a run uses one context object: every started node was handed the
\* object run holds, the object returned is that object, a context the
\* caller passed is the one used and none is made, and without one run makes
\* exactly one.
C19_OneContextPerRun ==
    /\ \A n \in Started : ctxrefs.passed[n] = ctxrefs.run
    /\ ppc = "returned" => ctxrefs.returned = ctxrefs.run
    /\ ppc # "build"
         => /\ ctxrefs.run # 0
            /\ ctxrefs.arg # 0 => ctxrefs.run = ctxrefs.arg /\ ctxrefs.created = 0
            /\ ctxrefs.arg = 0 => ctxrefs.run # CallerCtx /\ ctxrefs.created = 1

\* the caller passed its context, three nodes were handed it and it is returned
C19_Witness ==
    /\ ppc = "returned"
    /\ ctxrefs.arg = CallerCtx
    /\ ctxrefs.returned = CallerCtx
    /\ Cardinality({n \in Nodes : ctxrefs.passed[n] = CallerCtx}) >= 3

\* how many executed predecessors list n among their successors
DecrementsOf(n) == Cardinality({p \in executed : Contains(successors[p], n)})

\* C20: whether or not an error is recorded in the context, every node that
\* returned is marked executed once its frontier is over, each in-degree is
\* the number of predecessors less the executed ones, every unexecuted node
\* with in-degree zero is in the next frontier, and a run that returns has
\* run every reachable node once.
C20_OutcomesAreNotInspected ==
    ppc \in {"gather", "returned", "cycle_error"}
    => /\ \A n \in Range(nodes) :
             in_degree[n] = Len(predecessors[n]) - DecrementsOf(n)
       /\ \A n \in Range(nodes) :
             nstatus[n] = "done" => n \in executed \cup Range(ready)
       /\ ppc = "gather"
            => \A n \in Range(nodes) :
                  in_degree[n] = 0 /\ n \notin executed => Contains(ready, n)
       /\ ppc = "returned"
            => \A n \in Reachable : starts[n] = 1 /\ nstatus[n] = "done"
       /\ (Acyclic /\ \A n \in Reachable : Range(predecessors[n]) \subseteq Reachable)
            => ppc # "cycle_error"

\* an error is in the context and the frontier after it, made of nodes that
\* had predecessors, has been formed and not yet started
C20_Witness ==
    /\ ppc = "gather"
    /\ "error" \in ctx
    /\ ready # <<>>
    /\ \A n \in Range(ready) : nstatus[n] = "idle" /\ Len(predecessors[n]) > 0

\* a run in which an error was recorded has returned the context
C20_ReturnedWithError ==
    ppc = "returned" /\ "error" \in ctx /\ Cardinality(Reachable) >= 3

\* ------------------------------------------------------------------------
\* More claims about Benchmark.execute
\* ------------------------------------------------------------------------

\* C14: when the append to the report file fails, the failure stays inside
\* the persistence step: execute returns normally and the results of the
\* batch are in the fields of the Benchmark.
C14_AppendFailureIsContained ==
    (CallOver /\ exec.error = AppendFailed)
    => /\ exec.pc = "returned"
       /\ exec.env \in DOMAIN bench.results
       /\ Len(DictGet(bench.world_details, exec.env, <<>>)) = Len(tasks)

\* with K >= 1, items in flight plus free permits make K
PermitsAccounted ==
    (exec.pc # "idle" /\ exec.world_concurrency >= 1)
    => Cardinality(InFlight) + exec.semaphore = exec.world_concurrency

\* C17: with K >= 1 every permit taken is given back when the item's work
\* returns or raises, so items in flight plus free permits always make K;
\* and a call that is under way leads to every item having been admitted
\* and to execute returning with one result record per item.
C17_PermitsReturnAndAllItemsRun ==
    /\ []PermitsAccounted
    /\ []((exec.pc = "gather" /\ exec.world_concurrency >= 1)
            => <>(/\ \A i \in TaskIds : tasks[i].st # "waiting"
                  /\ exec.pc = "returned"
                  /\ Len(DictGet(bench.world_details, exec.env, <<>>)) = Len(tasks)))

\* the items of the batch the last row describes
RowDetails == DictGet(bench.world_details, LastCell("env_folder_path"), <<>>)

\* the items whose ratio is defined and at least 0.999
Successes(details) ==
    {i \in 1..Len(details) :
        /\ details[i].max_reward # 0
        /\ IF details[i].max_reward > 0
           THEN 1000 * details[i].reward >= 999 * details[i].max_reward
           ELSE 1000 * details[i].reward <= 999 * details[i].max_reward}

\* C18: the success count of the row is the number of items of its batch
\* whose maximum is non-zero and whose reward / maximum is at least 0.999.
C18_SuccessCount ==
    exec.pc = "returned"
    => LastCell("success_worlds") = ToString(Cardinality(Successes(RowDetails)))

\* a row whose batch has an item with ratio in [0.999, 1), counted, and an
\* item below, not counted
C18_Witness ==
    /\ exec.pc = "returned"
    /\ LastCell("success_worlds") = "1"
    /\ \E i, j \in 1..Len(RowDetails) :
          /\ RowDetails[i].reward = 999 /\ RowDetails[i].max_reward = 1000
          /\ RowDetails[j].reward = 0 /\ RowDetails[j].max_reward = 1000

\* a row whose batch has an item of maximum zero and non-zero reward, not counted
C18_UndefinedRatioNotCounted ==
    /\ exec.pc = "returned"
    /\ LastCell("success_worlds") = "1"
    /\ \E i, j \in 1..Len(RowDetails) :
          /\ RowDetails[i].max_reward = 0 /\ RowDetails[i].reward # 0
          /\ RowDetails[j].max_reward # 0

\* ------------------------------------------------------------------------
\* Claims about loading a work item
\* ------------------------------------------------------------------------

\* the errors _load_env raises
LoadEnvErrors ==
    {"env_main.py not found", "Failed to load env module", "No valid SkinEnv subclass found"}

\* _load_env has just returned to _load_env_world, or has raised
LoadEnvLeft ==
    \/ ld.pc = "load_env_done"
    \/ ld.pc = "raised" /\ ld.error \in LoadEnvErrors

\* C12: when _load_env has returned or raised, the working directory and
\* sys.path are what they were when it was called, whatever sys.path was.
C12_LoadEnvRestoresCwdAndPath ==
    LoadEnvLeft => ld.cwd = ld.caller_cwd /\ ld.sys_path = ld.sys_path_before

\* the part of C12 that concerns the working directory
C12_CwdRestored == LoadEnvLeft => ld.cwd = ld.caller_cwd

\* the process is inside a call the loader or the wrapper has framed
InWindow == ld.pc \in {"in_module", "in_init", "in_call"}

\* C13: a call through EnvWrapper and the instantiation of the environment
\* run in the workload directory, and outside such a call the working
\* directory is the one the process was in before it.
C13_CallsRunInEnvDirAndRestore ==
    /\ ld.pc \in {"in_init", "in_call"} => ld.cwd = EnvDir
    /\ ~InWindow /\ ld.pc # "chdir" => ld.cwd = ld.caller_cwd

\* the second call through the wrapper has returned, made from a directory
\* that is neither the workload directory nor the one the wrapper was made in
C13_Witness ==
    /\ ld.pc = "loaded"
    /\ ld.calls = MaxEnvCalls
    /\ ld.cwd = ld.call_cwd
    /\ ld.call_cwd \notin {EnvDir, ld.wrapper_cwd}

\* C15: when the level error is raised for an item, nothing has been made or
\* loaded for it: no solver, no environment module, no environment object.
C15_LevelErrorBeforeAnyResource ==
    (ld.pc = "raised" /\ ld.error = LevelError)
    => /\ ld.solvers = 0
       /\ ld.env_loads = 0 /\ ~ld.module_loaded
       /\ ld.instantiations = 0 /\ ~ld.instantiated

\* what is wrong with the item, from the files alone
LevelUnusable(files) ==
    \/ files.val_levels = "bad"
    \/ files.val_levels = "absent" /\ files.levels # "ok"

MetadataMissing(info) == info.agent_instruction = "" \/ info.action_space = ""

\* the load of the item is over
LoadOver == ld.pc \in {"raised", "loaded", "in_call"}

SomeWriterMigrated == \E w \in Writers : writers[w].migrated

\* the data rows csv_path held before any process began, in the current layout
EarlierRows ==
    {MigratedRow(ReaderFieldNames(disk.before), r) : r \in Range(ReaderRows(disk.before))}

\* C21: when a process has migrated the store while other processes append
\* to it, the file csv_path names afterwards holds every earlier row and the
\* row of every process.
C21_MigrationLosesNoRow ==
    AllWritersDone /\ SomeWriterMigrated
    => /\ \A r \in EarlierRows : Contains(PathLines, r)
       /\ \A w \in Writers : Contains(PathLines, WriterRow(w))

\* the lines of the file that are the header
HeaderLines == {i \in 1..Len(PathLines) : PathLines[i] = FieldNames}

\* C22: whatever the processes found at csv_path, when they are done the
\* file has exactly one header line and it is the first line.
C22_OneHeaderFirst ==
    AllWritersDone => HeaderLines = {1}

\* the process appends without holding the lock: fcntl is not importable, or
\* flock(LOCK_EX) raised
Lockless(w) == ~writers[w].fcntl \/ writers[w].lock_failed

\* the steps of _save_env_result_to_csv a process can take next
WriterStep(w) ==
    \/ CheckExists(w) \/ CheckSize(w) \/ ReadOld(w) \/ MoveMigrated(w)
    \/ MoveCopyTruncate(w) \/ MoveCopyWrite(w) \/ OpenAppend(w) \/ Lock(w)
    \/ LockFails(w) \/ WriteRow(w) \/ Unlock(w) \/ Close(w)

\* C23: a process without the lock is never held up on the way to its
\* append, has its row in the buffer once it has written, and the row
\* reaches the end of the file it opened when the file is closed.
C23_LocklessStillAppends ==
    /\ [](\A w \in Writers :
             /\ ~writers[w].fcntl /\ writers[w].pc # "done" => ENABLED WriterStep(w)
             /\ Lockless(w) /\ writers[w].pc \in {"unlock", "close"}
                  => /\ writers[w].buffer # <<>>
                     /\ writers[w].buffer[Len(writers[w].buffer)] = WriterRow(w))
    /\ [][\A w \in Writers :
             Lockless(w) /\ writers[w].pc = "close" /\ writers'[w].pc = "done"
             => LET f == writers[w].f
                IN /\ Len(disk'.files[f]) > Len(disk.files[f])
                   /\ disk'.files[f][Len(disk'.files[f])] = WriterRow(w)]_vars

\* a process whose flock raised is done and its row is in the report file,
\* next to the row of a process that appended under the lock
C23_Witness ==
    /\ AllWritersDone
    /\ \E w \in Writers : writers[w].lock_failed /\ RowCount(w) = 1
    /\ \E w \in Writers : ~writers[w].lock_failed /\ RowCount(w) = 1

\* ------------------------------------------------------------------------
\* Claims about the items of a batch and what the batch is
\* ------------------------------------------------------------------------

\* C24: no step of execute settles a task that is in flight: such a task
\* stays as it is until its own solver.run returns or raises, which gives its
\* permit back; after execute has raised every task still in flight can
\* return.
C24_SiblingsNotCancelled ==
    /\ [](exec.pc = "raised" => \A i \in InFlight : ENABLED WorldFinish(i))
    /\ [][\A i \in InFlight :
             \/ tasks'[i].st = "running"
             \/ /\ tasks'[i].st \in {"done", "failed"}
                /\ exec'.pc = exec.pc
                /\ exec'.semaphore = exec.semaphore + 1]_vars

\* execute has raised because one item failed, and an item that was in
\* flight at that moment has since run to its return
C24_Witness ==
    /\ exec.pc = "raised"
    /\ \E i \in exec.at_raise : tasks[i].st = "done" /\ tasks[i].result # None

\* _load_env_world has returned (wrapped_env, env_info) for the item
ItemLoaded == ld.pc \in {"loaded", "in_call"}

\* the env_info dict the item is run with
LoadedEnvInfo == LoadEnvWorld(ld.world_id, ld.files, ld.info, ld.envmain).env_info

\* the workload lacks the instruction, the action space or the step bound
LacksMetadata(info) ==
    info.agent_instruction = "" \/ info.action_space = "" \/ info.max_steps = None

\* C25: an item that has been loaded has an instruction, an action-space
\* description and a maximum-step bound, and a workload that lacks one of
\* them (its level file being usable) is refused with the metadata error.
C25_LoadedItemsHaveFullMetadata ==
    /\ ItemLoaded
         => /\ ~LacksMetadata(ld.info)
            /\ LoadedEnvInfo.max_step # None
    /\ LoadOver /\ ~LevelUnusable(ld.files) /\ LacksMetadata(ld.info)
         => ld.pc = "raised" /\ ld.error = MetaError

\* the level directory the docstring of execute gives for a world_mode
DirOfMode(world_mode) == IF world_mode = "val" THEN "val_levels" ELSE "levels"

\* the ids of the tasks of the call, in task order
BatchIds == [i \in 1..Len(tasks) |-> tasks[i].world_id]

\* tasks whose _load_env_world has returned
LoadedTasks == {i \in 1..Len(tasks) : tasks[i].env_info # None}

\* C26: the batch is listed from the directory of the mode, and every item
\* that is loaded is directed to the file of its id in that same directory,
\* also when the id exists in both directories.
C26_ModeSelectsDirectory ==
    exec.pc # "idle"
    => /\ Range(BatchIds) \subseteq LevelDirs(exec.env)[DirOfMode(exec.world_mode)]
       /\ \A i \in LoadedTasks :
             tasks[i].env_info.world_id
               = [dir |-> DirOfMode(exec.world_mode), id |-> tasks[i].world_id]

\* the first max_worlds ids of the sorted list of the directory, all if None
ExpectedBatch ==
    LET listed == SortedList(LevelDirs(exec.env)[DirOfMode(exec.world_mode)])
    IN IF exec.max_worlds = None
       THEN listed
       ELSE [i \in 1..(IF exec.max_worlds[1] < Len(listed)
                       THEN exec.max_worlds[1] ELSE Len(listed)) |-> listed[i]]

\* C27: the tasks of a call are the first max_worlds ids of the sorted list,
\* and when the call has returned the id list and the count of the row it
\* appended are those of the items it ran.
C27_RowListsTheItemsRun ==
    /\ exec.pc # "idle" => BatchIds = ExpectedBatch
    /\ exec.pc = "returned"
         => /\ \A i \in 1..Len(tasks) : tasks[i].st = "done"
            /\ LastCell("world_ids") = JoinIds(BatchIds)
            /\ LastCell("world_count") = ToString(Len(tasks))

\* ------------------------------------------------------------------------
\* Claims about the node graph and its traversal
\* ------------------------------------------------------------------------

\* the nodes collected before position k
CollectedBefore(k) == {nodes[j] : j \in 1..(k - 1)}

\* positions before k of the nodes that have nodes[k] as a successor
ParentsBefore(k) == {j \in 1..(k - 1) : Contains(successors[nodes[j]], nodes[k])}

\* nodes[k] is where a depth-first walk goes next after nodes[1..k-1]: it is
\* the first successor not yet collected of the latest collected node that
\* has one, and every node collected after that one has nothing left
PreorderAt(k) ==
    /\ ParentsBefore(k) # {}
    /\ LET p == CHOOSE j \in ParentsBefore(k) : \A i \in ParentsBefore(k) : i <= j
           succs == successors[nodes[p]]
           fresh == {i \in 1..Len(succs) : succs[i] \notin CollectedBefore(k)}
       IN /\ fresh # {}
          /\ succs[CHOOSE i \in fresh : \A j \in fresh : i <= j] = nodes[k]
          /\ \A j \in (p + 1)..(k - 1) :
                Range(successors[nodes[j]]) \subseteq CollectedBefore(k)

\* C28: the list _collect_nodes returns holds exactly the nodes reachable
\* from the root, each once, the root first and the rest in depth-first
\* pre-order, whether the graph has cycles or not.
C28_CollectIsPreorder ==
    RunBegun
    => /\ Range(nodes) = Reachable
       /\ Len(nodes) = Cardinality(Reachable)
       /\ nodes[1] = Root
       /\ \A k \in 2..Len(nodes) : PreorderAt(k)

\* a graph with a cycle through the root in which the root has two successors
\* and a node is reached along two paths has been collected
C28_Witness ==
    /\ RunBegun
    /\ OnCycle(Root)
    /\ Len(successors[Root]) >= 2
    /\ Len(nodes) >= 3
    /\ \E n \in Range(nodes) : Len(predecessors[n]) >= 2
    /\ \E n \in Nodes : n \notin Range(nodes)

\* a list without a repeated element
NoDuplicate(s) == \A i \in 1..Len(s) : \A j \in 1..Len(s) : s[i] = s[j] => i = j

\* C29: after any add calls the two edge lists mirror each other and hold no
\* node twice, adding an edge that is there changes neither list, and the
\* in-degree computed for a node is the number of nodes it succeeds.
C29_EdgeListsMirror ==
    /\ \A a \in Nodes : \A b \in Nodes :
          /\ Contains(successors[a], b) <=> Contains(predecessors[b], a)
          /\ Contains(successors[a], b)
               => AddSuccessors(a, b) = successors /\ AddPredecessors(a, b) = predecessors
    /\ \A n \in Nodes : NoDuplicate(successors[n]) /\ NoDuplicate(predecessors[n])
    /\ \A b \in Nodes :
          InitialInDegree(b) = Cardinality({a \in Nodes : Contains(successors[a], b)})

\* the graph holds a node with two predecessors, one of them itself, and the
\* run has computed its in-degree
C29_Witness ==
    /\ RunBegun
    /\ \E b \in Range(nodes) :
          /\ Contains(successors[b], b)
          /\ Len(predecessors[b]) = 2
          /\ EdgeCount = MaxEdges

\* the declared order of the pipeline that is being built or run
DeclaredOrder == IF build.first = "env_desc" THEN GeneratorNodes ELSE VisualNodes

\* the nodes whose execute is under way
RunningNodes == {n \in DOMAIN nstatus : nstatus[n] = "running"}

\* C30: the graph create_default returns is the chain of the declared order,
\* and run executes it one node at a time in that order: every frontier is
\* one node, a node is started only when all the nodes declared before it are
\* done, each at most once, and no two nodes run at the same time.
C30_DefaultPipelinesAreChains ==
    LET order == DeclaredOrder
        n == Len(order)
    IN /\ build.root # ""
            => /\ build.root = order[1]
               /\ \A i \in 1..n :
                     /\ successors[order[i]] = IF i < n THEN <<order[i + 1]>> ELSE <<>>
                     /\ predecessors[order[i]] = IF i > 1 THEN <<order[i - 1]>> ELSE <<>>
       /\ RunBegun => nodes = order
       /\ ppc = "gather" => Len(ready) = 1
       /\ Cardinality(RunningNodes) <= 1
       /\ \A j \in 1..n :
             /\ starts[order[j]] <= 1
             /\ starts[order[j]] > 0 => \A i \in 1..(j - 1) : nstatus[order[i]] = "done"

\* GeneratorPipeline's run has returned after all eight nodes ran
C30_Witness ==
    /\ build.first = "env_desc"
    /\ ppc = "returned"
    /\ \A n \in Range(GeneratorNodes) : starts[n] = 1 /\ nstatus[n] = "done"

\* ------------------------------------------------------------------------
\* Claims about frontiers, cancellation and cycles in run
\* ------------------------------------------------------------------------

\* C31: no step of run ends the execute of a node: a running node stays
\* running until it returns, writing its key into the context, or raises by
\* itself; after run has raised to its caller the nodes of the failed
\* frontier that are running can still return and those not yet begun can
\* still begin.
C31_NoCancellation ==
    /\ [](ppc = "raised"
            => \A n \in Range(ready) :
                  /\ nstatus[n] = "running" => ENABLED NodeFinish(n)
                  /\ nstatus[n] = "idle" => ENABLED NodeStart(n))
    /\ [][\A n \in Nodes :
             nstatus[n] = "running"
             => \/ nstatus'[n] = "running"
                \/ /\ nstatus'[n] \in {"done", "raised"}
                   /\ ppc' = ppc
                   /\ nstatus'[n] = "done" => n \in ctx' /\ n \notin ctx]_vars

\* run has raised because a node of a frontier failed, while another node
\* of that frontier is still running and a third has returned
C31_Witness ==
    /\ ppc = "raised"
    /\ \E a \in Range(ready), b \in Range(ready), c \in Range(ready) :
          /\ nstatus[a] = "raised"
          /\ nstatus[b] = "running"
          /\ nstatus[c] = "done" /\ c \in ctx

\* C32: run is level-synchronous: every node that has begun and is not of
\* the current frontier has finished and is recorded as executed, so a node
\* of a later frontier begins only after every node of the frontier before
\* it has returned, even a node whose own predecessors returned earlier.
C32_LevelSynchronous ==
    /\ \A m \in Started \ Range(ready) : nstatus[m] = "done" /\ m \in executed
    /\ \A n \in Nodes \ Range(ready) :
          nstatus[n] = "idle" => ~ENABLED NodeStart(n)

\* a node outside the frontier has every one of its predecessors done while
\* a node of the current frontier is still running
C32_Witness ==
    /\ ppc = "gather"
    /\ \E m \in Range(ready) : nstatus[m] = "running"
    /\ \E n \in Nodes \ Range(ready) :
          /\ nstatus[n] = "idle"
          /\ n \in Reachable
          /\ predecessors[n] # <<>>
          /\ \A q \in Range(predecessors[n]) : nstatus[q] = "done"

\* nodes from which n can be reached along successor edges
Ancestors(n) == {a \in Nodes : n \in Closure(Range(successors[a]))}

\* n is on a cycle or below one
BelowCycle(n) == OnCycle(n) \/ \E a \in Ancestors(n) : OnCycle(a)

\* C33: when the cycle-detected error is raised and the root is not on a
\* cycle, every reachable node that is neither on a cycle nor below one has
\* been executed exactly once, and every node on or below a cycle has been
\* executed zero times.
C33_CycleErrorAfterCleanPrefix ==
    (ppc = "cycle_error" /\ ~OnCycle(Root))
        => \A n \in Reachable :
              IF BelowCycle(n)
              THEN starts[n] = 0
              ELSE starts[n] = 1 /\ nstatus[n] = "done"

\* ------------------------------------------------------------------------
\* Claims about the row of a call, the level file and the semaphore
\* ------------------------------------------------------------------------

\* C34: when execute has returned, the row it appended describes the batch
\* it just ran: the env_folder_path of the call, the total reward and the
\* maximum of its items, their ids and the duration of this call, whatever
\* calls were made on the Benchmark before.
C34_RowDescribesThisCall ==
    (exec.pc = "returned")
    => /\ LastCell("env_folder_path") = exec.env
       /\ LastCell("total_reward")
            = ToString(SumOver(TaskIds, [i \in TaskIds |->
                                            OrZero(tasks[i].result.total_reward)]))
       /\ LastCell("max_reward_total")
            = ToString(SumOver(TaskIds, [i \in TaskIds |->
                          DictGet(LoadMaxRewards(exec.env), tasks[i].world_id, 0)]))
       /\ LastCell("world_ids") = JoinIds(BatchIds)
       /\ LastCell("duration_seconds") = OptStr(<<exec.calls>>)

\* C37: a call with world_concurrency = 0 on a non-empty batch stays in
\* gather for ever: no item is admitted, no error is recorded or raised, the
\* call does not return, the report file is as it was before the call, and
\* no step of the call can be taken.
C37_ZeroConcurrencyHangs ==
    (exec.pc # "idle" /\ exec.world_concurrency = 0 /\ tasks # <<>>)
    => /\ exec.pc = "gather"
       /\ \A i \in 1..Len(tasks) : tasks[i].st = "waiting"
       /\ exec.error = ""
       /\ store = exec.store_before
       /\ \A i \in WorldIds : ~ENABLED RunWorld(i)
       /\ ~ENABLED ExecuteReturn
       /\ ~ENABLED ExecuteRaise
       /\ ~ENABLED ExecuteSaveFails

\* a call with world_concurrency = 0 waits in gather on a batch of two
C37_Witness ==
    /\ exec.pc = "gather"
    /\ exec.world_concurrency = 0
    /\ Len(tasks) = 2

\* C36: the level file _validate_level checks is the file the environment
\* is directed to: an item whose levels/ file exists and parses is not
\* refused with the level error whatever the val_levels/ file is, and an
\* item that is loaded is run against the file that was validated, which
\* parses.
C36_ValidatedFileIsLoadedFile ==
    /\ (ld.validations > 0 /\ ld.files.levels = "ok") => ld.error # LevelError
    /\ ItemLoaded
         => /\ LoadedEnvInfo.world_id.dir = ValidatedDir(ld.files)
            /\ ld.files[LoadedEnvInfo.world_id.dir] = "ok"

\* ------------------------------------------------------------------------
\* Claims about several execute calls in one event loop
\* ------------------------------------------------------------------------

\* the items inside a working-directory window
ItemsInWindow == {t \in Items : coop.items[t].pc \in {"in_module", "in_init", "in_call"}}

\* C35: no working-directory window of _load_env, of the constructor call or
\* of wrapped_method holds a suspension point: the item inside a window is
\* the task that has the thread, so at most one item is inside a window, and
\* whenever the event loop has the thread (some task is at a suspension
\* point) the working directory is the one the orchestrator started in.
C35_WindowsDoNotOverlap ==
    /\ \A t \in ItemsInWindow : coop.running = t /\ coop.cwd = t[1]
    /\ Cardinality(ItemsInWindow) <= 1
    /\ \A t \in ItemsInWindow : ~ENABLED CoopSuspend(t)
    /\ coop.running = None => coop.cwd = OrigDir
    /\ ItemsInWindow = {} => coop.cwd = OrigDir

\* an item of one environment is inside wrapped_method while an item of the
\* other environment is suspended in its solver after a call of its own
C35_Witness ==
    \E t \in Items, u \in Items :
        /\ t[1] # u[1]
        /\ coop.items[t].pc = "in_call"
        /\ coop.items[u].pc = "solver"
        /\ coop.items[u].calls > 0

\* the items of environment e that hold a permit of its call
CoopInFlight(e) ==
    {t \in Items : t[1] = e /\ coop.items[t].pc \notin {"none", "waiting", "done", "failed"}}

\* C39: with one execute call per environment, each with bound K, no
\* environment has more than K items in flight, and so the items in flight
\* over all E environments are at most E * K.
C39_BoundIsPerCall ==
    /\ \A e \in Envs : Cardinality(CoopInFlight(e)) <= coop.world_concurrency
    /\ \A e \in coop.started :
          Cardinality(CoopInFlight(e)) + coop.semaphore[e] = coop.world_concurrency
    /\ Cardinality(UNION {CoopInFlight(e) : e \in Envs})
          <= Cardinality(Envs) * coop.world_concurrency

\* more than K items are in flight in all, K in each environment
C39_Witness ==
    /\ Cardinality(UNION {CoopInFlight(e) : e \in Envs}) > coop.world_concurrency
    /\ \A e \in Envs : Cardinality(CoopInFlight(e)) = coop.world_concurrency

\* ------------------------------------------------------------------------
\* Claims about the generator nodes
\* ------------------------------------------------------------------------

\* the position of a node in the chain of create_default
ChainPosition(n) == CHOOSE i \in 1..Len(GeneratorNodes) : GeneratorNodes[i] = n

\* C38: when GeneratorPipeline.run has returned, success and a recorded
\* error exclude each other, and if a node recorded an error no node after
\* it in the chain did its work.
C38_ErrorExcludesSuccess ==
    (ppc = "returned")
    => /\ gctx.success => gctx.error = None
       /\ gctx.refused # <<>>
            => /\ ~gctx.success
               /\ \A n \in gctx.worked : ChainPosition(n) < ChainPosition(gctx.refused[1])

\* ------------------------------------------------------------------------
\* Claims about a report file of another layout
\* ------------------------------------------------------------------------

\* the cell of a row read under `header` for the column `name`, "" when the
\* header has no such column or the row is too short
CellUnder(header, cells, name) ==
    IF ColumnAt(header, name) = 0 \/ ColumnAt(header, name) > Len(cells)
    THEN ""
    ELSE cells[ColumnAt(header, name)]

\* C40: after a call on a report file that is not empty and whose header is
\* not the column list of the row (columns more, fewer or in another order),
\* the header is the column list of the row, every data row has exactly
\* those columns, every earlier row is still there with its value in every
\* column both layouts have and nothing in the others, and the row of the
\* call follows them.
C40_MigrationAdoptsCurrentLayout ==
    (exec.pc = "saved" /\ bench.resultsKeys # <<>>)
    => LET before == exec.store_before.lines
           header == before[1]
       IN /\ store.lines[1] = FieldNames
          /\ Len(store.lines) = Len(before) + 1
          /\ \A i \in 2..Len(store.lines) : Len(store.lines[i]) = Len(FieldNames)
          /\ \A i \in 2..Len(before) :
                \A j \in 1..Len(FieldNames) :
                   store.lines[i][j] = CellUnder(header, before[i], FieldNames[j])
          /\ store.lines[Len(store.lines)] = RowCells(ResultRow(bench))

\* a file with two rows under the mixed layout has been rewritten
C40_Witness ==
    /\ exec.pc = "saved"
    /\ bench.resultsKeys # <<>>
    /\ exec.store_before.lines[1] = MixedLayout
    /\ Len(exec.store_before.lines) = 3
    /\ Len(exec.store_before.lines[2]) > Len(MixedLayout)
    /\ store.lines[2][ColumnAt(FieldNames, "cost")] = "r1.cost"

====
